---- MODULE Spec2Model ----
(***************************************************************************)
(* The statement parsing and normalisation pipeline of the finance         *)
(* advisor: file validation, tabular extraction, record validation,        *)
(* duplicate detection and the upload handler that chains them.            *)
(*                                                                         *)
(* Python values are tagged records ([t |-> "None"], [t |-> "str", ...]).  *)
(* Text is a sequence of one-character strings, so that strip(), lower()   *)
(* and float() are computed and not assumed.  Amounts are fixed-point      *)
(* integers in thousandths of a currency unit (100.005 is 100005).         *)
(***************************************************************************)
EXTENDS Integers, Sequences, FiniteSets, TLC

VARIABLES
    pc,                       \* position of the running call / handler
    uploaded_file,            \* the upload: size, type tag, content
    df,                       \* the table handed to tabular extraction
    transactions,             \* the record list under processing
    valid_transactions,       \* validator output: accepted records
    errors,                   \* validator output: error strings
    duplicates,               \* duplicate detector output
    categorized_transactions, \* output of process_and_categorize
    saved,                    \* rows committed by Transaction.create_bulk
    messages,                 \* st.error / st.warning diagnostics shown
    calls,                    \* pipeline stages invoked by the handler, in order
    arg,                      \* the argument of the function under call
    result                    \* what the calls of the function returned

vars == <<pc, uploaded_file, df, transactions, valid_transactions, errors,
          duplicates, categorized_transactions, saved, messages, calls, arg, result>>

(***************************************************************************)
(* Bounds of the model.                                                    *)
(***************************************************************************)
MaxRecs == 2
MaxDupRecs == 3
MaxRows == 2
SizeSlack == 1
MaxDateNumber == 13
MaxUnits == 3
MaxHeaders == 3
MaxFormatHeaders == 5
MaxLines == 2
MaxDescriptions == 3
MaxStatRecs == 2
MaxTypedRecs == 2

(***************************************************************************)
(* Python values.                                                          *)
(***************************************************************************)
None == [t |-> "None"]
NaN == [t |-> "nan"]
Str(s) == [t |-> "str", s |-> s]
Float(v) == [t |-> "float", v |-> v]
List == [t |-> "list"]
Date(y, m, d) == [t |-> "date", y |-> y, m |-> m, d |-> d]
DateTime(y, m, d, h) == [t |-> "datetime", y |-> y, m |-> m, d |-> d, h |-> h]

\* bool(x) as Python computes it for the value kinds above
Truthy(x) ==
    CASE x.t = "None" -> FALSE
      [] x.t = "str" -> x.s # <<>>
      [] x.t = "float" -> x.v # 0
      [] OTHER -> TRUE

SeqsUpTo(S, n) == UNION {[1..k -> S] : k \in 0..n}

\* the k-th smallest element of a finite set of integers
Nth(S, k) == CHOOSE p \in S : Cardinality({q \in S : q < p}) = k - 1

(***************************************************************************)
(* Text helpers: str.strip, str.lower, float(str).                         *)
(***************************************************************************)
\* the line break is the one-character text "newline"
NewLine == "newline"
Whitespace == {" ", NewLine}
Digits == {"0", "1", "2", "3", "4", "5", "6", "7", "8", "9"}
DigitVal(c) ==
    CASE c = "0" -> 0 [] c = "1" -> 1 [] c = "2" -> 2 [] c = "3" -> 3
      [] c = "4" -> 4 [] c = "5" -> 5 [] c = "6" -> 6 [] c = "7" -> 7
      [] c = "8" -> 8 [] c = "9" -> 9

RECURSIVE LStrip(_)
LStrip(s) == IF s # <<>> /\ Head(s) \in Whitespace THEN LStrip(Tail(s)) ELSE s

RECURSIVE RStrip(_)
RStrip(s) ==
    IF s # <<>> /\ s[Len(s)] \in Whitespace
    THEN RStrip(SubSeq(s, 1, Len(s) - 1)) ELSE s

Strip(s) == RStrip(LStrip(s))

UpperCase ==
    <<"A", "B", "C", "D", "E", "F", "G", "H", "I", "J", "K", "L", "M", 
      "N", "O", "P", "Q", "R", "S", "T", "U", "V", "W", "X", "Y", "Z">>
LowerCase ==
    <<"a", "b", "c", "d", "e", "f", "g", "h", "i", "j", "k", "l", "m", 
      "n", "o", "p", "q", "r", "s", "t", "u", "v", "w", "x", "y", "z">>

LowerChar(c) ==
    IF \E k \in 1..26 : UpperCase[k] = c
    THEN LowerCase[CHOOSE k \in 1..26 : UpperCase[k] = c]
    ELSE c

Lower(s) == [k \in 1..Len(s) |-> LowerChar(s[k])]

RECURSIVE DigitsValue(_)
DigitsValue(s) ==
    IF s = <<>> THEN 0 ELSE 10 * DigitsValue(SubSeq(s, 1, Len(s) - 1)) + DigitVal(s[Len(s)])

AllDigits(s) == \A k \in 1..Len(s) : s[k] \in Digits

\* the fraction digits of a numeral in thousandths (at most 3 digits are
\* in the model's texts; the value is exact for those)
FracValue(s) == DigitsValue(SubSeq(s \o <<"0", "0", "0">>, 1, 3))

\* float(s): surrounding whitespace stripped, an optional sign, digits with
\* an optional point and at least one digit.  [ok |-> FALSE] is ValueError.
Numeral(ip, fp) ==
    IF AllDigits(ip \o fp) /\ Len(ip) + Len(fp) > 0
    THEN [ok |-> TRUE, v |-> 1000 * DigitsValue(ip) + FracValue(fp)]
    ELSE [ok |-> FALSE, v |-> 0]

\* p is the position of the first point, 0 if there is none
NumeralAt(s, p) ==
    IF p = 0 THEN Numeral(s, <<>>) ELSE Numeral(SubSeq(s, 1, p - 1), SubSeq(s, p + 1, Len(s)))

ParseUnsigned(s) ==
    NumeralAt(s, IF \E k \in 1..Len(s) : s[k] = "."
                 THEN CHOOSE k \in 1..Len(s) : s[k] = "." /\ \A j \in 1..(k - 1) : s[j] # "."
                 ELSE 0)

Signed(r, sign) == [ok |-> r.ok, v |-> sign * r.v]

ParseStripped(s) ==
    Signed(ParseUnsigned(IF s # <<>> /\ Head(s) \in {"-", "+"} THEN Tail(s) ELSE s),
           IF s # <<>> /\ Head(s) = "-" THEN -1 ELSE 1)

ParseFloat(text) == ParseStripped(Strip(text))

(***************************************************************************)
(* TransactionParser.validate_transactions                                 *)
(*                                                                         *)
(* A record of the list is a dict [t |-> "dict", description, amount,      *)
(* transaction_date, ...] whose missing keys read as None (dict.get), or   *)
(* a value that is no dict, on which .get raises.  An error string         *)
(* f"Row {n}: {reason}" is the pair [row |-> n, reason |-> reason].        *)
(***************************************************************************)
RowError(n, reason) == [row |-> n, reason |-> reason]

\* float(transaction['amount']): TypeError for a list, ValueError for text
\* that is no numeral
FloatOf(x) ==
    CASE x.t = "float" -> [ok |-> TRUE, v |-> x.v]
      [] x.t = "str" -> ParseFloat(x.s)
      [] OTHER -> [ok |-> FALSE, v |-> 0]

\* isinstance(x, (datetime, date))
\* the test with datetime alone
IsDatetimeOnly(x) == x.t = "datetime"

IsDateInstance(x) == x.t \in {"date", "datetime"}

Accept(transaction) == [valid |-> TRUE, transaction |-> transaction, error |-> None]
Reject(transaction, n, reason) ==
    [valid |-> FALSE, transaction |-> transaction, error |-> RowError(n, reason)]

\* CheckRecord with the amount coerced before the date is looked at
CheckRecordAmountFirst(transaction, i) ==
    IF transaction.t # "dict"
    THEN Reject(transaction, i + 1, "Validation error")
    ELSE IF ~Truthy(transaction.description)
    THEN Reject(transaction, i + 1, "Missing description")
    ELSE IF transaction.amount = None
    THEN Reject(transaction, i + 1, "Missing amount")
    ELSE IF ~FloatOf(transaction.amount).ok
    THEN Reject(transaction, i + 1, "Invalid amount format")
    ELSE LET coerced == [transaction EXCEPT !.amount = Float(FloatOf(transaction.amount).v)]
         IN  IF ~Truthy(transaction.transaction_date)
             THEN Reject(coerced, i + 1, "Missing transaction date")
             ELSE IF ~IsDateInstance(transaction.transaction_date)
             THEN Reject(coerced, i + 1, "Invalid date format")
             ELSE Accept(coerced)

\* CheckRecord reporting enumerate's index itself as the row
CheckRecordZeroBased(transaction, i) ==
    LET r == CheckRecordAmountFirst(transaction, i)
    IN  IF r.valid THEN r ELSE [r EXCEPT !.error.row = i]

\* one iteration of the loop body; i is enumerate's 0-based index
CheckRecord(transaction, i) ==
    IF transaction.t # "dict"
    THEN Reject(transaction, i + 1, "Validation error")
    ELSE IF ~Truthy(transaction.description)
    THEN Reject(transaction, i + 1, "Missing description")
    ELSE IF transaction.amount = None
    THEN Reject(transaction, i + 1, "Missing amount")
    ELSE IF ~Truthy(transaction.transaction_date)
    THEN Reject(transaction, i + 1, "Missing transaction date")
    ELSE IF ~FloatOf(transaction.amount).ok
    THEN Reject(transaction, i + 1, "Invalid amount format")
    ELSE LET coerced == [transaction EXCEPT !.amount = Float(FloatOf(transaction.amount).v)]
         IN  IF ~IsDateInstance(transaction.transaction_date)
             THEN Reject(coerced, i + 1, "Invalid date format")
             ELSE Accept(coerced)

\* the loop: returns the two lists and the input list as the loop leaves
\* it (transaction['amount'] = amount assigns into the caller's dicts)
RECURSIVE ValidateLoop(_, _, _, _)
\* the lists after the iteration with result r, and on to the next one
ValidateNext(txs, i, valid, errs, r) ==
    ValidateLoop([txs EXCEPT ![i + 1] = r.transaction], i + 1,
                 IF r.valid THEN Append(valid, r.transaction) ELSE valid,
                 IF r.valid THEN errs ELSE Append(errs, r.error))

ValidateLoop(txs, i, valid, errs) ==
    IF i >= Len(txs)
    THEN [valid_transactions |-> valid, errors |-> errs, transactions |-> txs]
    ELSE ValidateNext(txs, i, valid, errs, CheckRecord(txs[i + 1], i))

validate_transactions(txs) == ValidateLoop(txs, 0, <<>>, <<>>)

(***************************************************************************)
(* Validator harness: validate_transactions applied to arbitrary lists.    *)
(***************************************************************************)
ValDescriptions == {None, Str(<<>>), Str(<<"A">>)}
ValAmounts == {None, Float(5000), Str(<<"1", "2", ".", "5">>), Str(<<"a", "b", "c">>), List}
ValDates == {None, Date(2024, 1, 15), DateTime(2024, 1, 15, 12), Str(<<"x">>)}

ValRecords ==
    {[t |-> "dict", description |-> d, amount |-> a, transaction_date |-> dt] :
        d \in ValDescriptions, a \in ValAmounts, dt \in ValDates}
    \cup {None}

NoFile == [size |-> 0, type |-> "", kind |-> "none"]
NoTable == [columns |-> <<>>, rows |-> <<>>]

InitValidate ==
    /\ pc = "validate_start"
    /\ transactions \in SeqsUpTo(ValRecords, MaxRecs)
    /\ uploaded_file = NoFile
    /\ df = NoTable
    /\ valid_transactions = <<>>
    /\ errors = <<>>
    /\ duplicates = <<>>
    /\ categorized_transactions = <<>>
    /\ saved = <<>>
    /\ messages = <<>>
    /\ calls = <<>>
    /\ arg = None
    /\ result = None

ValidateCall ==
    /\ pc = "validate_start"
    /\ \E r \in {validate_transactions(transactions)} :
          /\ valid_transactions' = r.valid_transactions
          /\ errors' = r.errors
          /\ transactions' = r.transactions
    /\ pc' = "validate_done"
    /\ UNCHANGED <<uploaded_file, df, duplicates, categorized_transactions, saved,
                   messages, calls,
                   arg, result>>

NextValidate == ValidateCall

SpecValidate == InitValidate /\ [][NextValidate]_vars

\* what the validator requires of a record, as the specification lists it
Acceptable(tx) ==
    /\ tx.t = "dict"
    /\ Truthy(tx.description)
    /\ tx.amount # None
    /\ FloatOf(tx.amount).ok
    /\ Truthy(tx.transaction_date)
    /\ IsDateInstance(tx.transaction_date)

\* C1: validate_transactions partitions its input.  After the call the
\* lengths of valid_transactions and errors add up to the length of the
\* input, valid_transactions is the list of the acceptable records in
\* input order, and errors holds one "Row n: ..." string for each
\* unacceptable record, n its 1-based position, in increasing n.
C1_Partition ==
    pc = "validate_done" =>
        LET n == Len(transactions)
            good == {k \in 1..n : Acceptable(transactions[k])}
            bad == (1..n) \ good
        IN  /\ Len(valid_transactions) + Len(errors) = n
            /\ Len(valid_transactions) = Cardinality(good)
            /\ \A k \in 1..Len(valid_transactions) :
                   valid_transactions[k] = transactions[Nth(good, k)]
            /\ Len(errors) = Cardinality(bad)
            /\ \A k \in 1..Len(errors) : errors[k].row = Nth(bad, k)

C1_Witness ==
    /\ pc = "validate_done"
    /\ Len(transactions) = 2
    /\ Len(valid_transactions) = 1
    /\ Len(errors) = 1
    /\ errors[1].row = 2

\* the reason of the first failing check, in the order the claim gives:
\* description, amount present, amount numeric, date present, date type
ClaimedReason(tx) ==
    IF ~Truthy(tx.description) THEN "Missing description"
    ELSE IF tx.amount = None THEN "Missing amount"
    ELSE IF ~FloatOf(tx.amount).ok THEN "Invalid amount format"
    ELSE IF ~Truthy(tx.transaction_date) THEN "Missing transaction date"
    ELSE "Invalid date format"

\* the same with both presence checks before both type checks
PresenceFirstReason(tx) ==
    IF ~Truthy(tx.description) THEN "Missing description"
    ELSE IF tx.amount = None THEN "Missing amount"
    ELSE IF ~Truthy(tx.transaction_date) THEN "Missing transaction date"
    ELSE IF ~FloatOf(tx.amount).ok THEN "Invalid amount format"
    ELSE "Invalid date format"

\* C2 as stated: every rejected dict is reported with the reason of the
\* first failing check in the order description, amount present, amount
\* numeric, date present, date type.
C2_ClaimedOrder ==
    pc = "validate_done" =>
        \A k \in 1..Len(errors) :
            transactions[errors[k].row].t = "dict" =>
                errors[k].reason = ClaimedReason(transactions[errors[k].row])

\* C2 amended: every rejected dict is reported with the reason of the
\* first failing check in the order description present, amount present,
\* date present, amount numeric, date type.
C2_PresenceFirst ==
    pc = "validate_done" =>
        \A k \in 1..Len(errors) :
            transactions[errors[k].row].t = "dict" =>
                errors[k].reason = PresenceFirstReason(transactions[errors[k].row])

\* a record with a description, a non-numeric amount and no date was
\* rejected for its missing date
C2_Witness ==
    /\ pc = "validate_done"
    /\ \E k \in 1..Len(errors) :
          LET tx == transactions[errors[k].row]
          IN  /\ tx.t = "dict"
              /\ Truthy(tx.description)
              /\ tx.amount = Str(<<"a", "b", "c">>)
              /\ tx.transaction_date = None
              /\ errors[k].reason = "Missing transaction date"

(***************************************************************************)
(* datetime.date arithmetic: date.toordinal and (d1 - d2).days.            *)
(***************************************************************************)
IsLeap(y) == (y % 4 = 0) /\ ((y % 100 # 0) \/ (y % 400 = 0))

DaysInMonth(y, m) ==
    CASE m \in {1, 3, 5, 7, 8, 10, 12} -> 31
      [] m \in {4, 6, 9, 11} -> 30
      [] OTHER -> IF IsLeap(y) THEN 29 ELSE 28

DaysBeforeYear(y) ==
    (y - 1) * 365 + ((y - 1) \div 4) - ((y - 1) \div 100) + ((y - 1) \div 400)

RECURSIVE DaysBeforeMonth(_, _)
DaysBeforeMonth(y, m) ==
    IF m = 1 THEN 0 ELSE DaysBeforeMonth(y, m - 1) + DaysInMonth(y, m - 1)

Ordinal(d) == DaysBeforeYear(d.y) + DaysBeforeMonth(d.y, d.m) + d.d

\* the hours from the start of the calendar to a date (its midnight) or to
\* a datetime
HoursOf(d) == Ordinal(d) * 24 + (IF d.t = "datetime" THEN d.h ELSE 0)

\* d1 - d2 is defined for two dates and for two datetimes; a date and a
\* datetime raise TypeError
Subtractable(d1, d2) == d1.t = d2.t

\* (d1 - d2).days: the whole days of the difference, rounded down
DaysBetween(d1, d2) == (HoursOf(d1) - HoursOf(d2)) \div 24

Abs(x) == IF x < 0 THEN 0 - x ELSE x

(***************************************************************************)
(* TransactionParser.get_duplicate_transactions                            *)
(***************************************************************************)
\* 0.01 currency units, in thousandths
Epsilon == 10
\* the score 0.95, in hundredths
SimilarityScore == 95

\* the pair test with the amount difference allowed to reach the epsilon
IsDuplicatePairInclusive(transaction1, transaction2) ==
    /\ transaction1.description = transaction2.description
    /\ Abs(transaction1.amount.v - transaction2.amount.v) <= Epsilon
    /\ Abs(DaysBetween(transaction1.transaction_date, transaction2.transaction_date)) <= 1

\* the condition of the if statement
IsDuplicatePair(transaction1, transaction2) ==
    /\ transaction1.description = transaction2.description
    /\ Abs(transaction1.amount.v - transaction2.amount.v) < Epsilon
    /\ Abs(DaysBetween(transaction1.transaction_date, transaction2.transaction_date)) <= 1

Candidate(transaction1, transaction2) ==
    [transaction1 |-> transaction1, transaction2 |-> transaction2,
     similarity_score |-> SimilarityScore]

\* the nested loops; i and j are the 0-based indexes of enumerate, j starts
\* at i + 1
RECURSIVE DuplicateLoop(_, _, _, _)
DuplicateLoop(txs, i, j, dups) ==
    IF i >= Len(txs) THEN dups
    ELSE IF j >= Len(txs) THEN DuplicateLoop(txs, i + 1, i + 2, dups)
    ELSE IF IsDuplicatePair(txs[i + 1], txs[j + 1])
    THEN DuplicateLoop(txs, i, j + 1, Append(dups, Candidate(txs[i + 1], txs[j + 1])))
    ELSE DuplicateLoop(txs, i, j + 1, dups)

\* the list without the second record of each flagged pair
WithoutFlagged(txs) ==
    LET drop == {j \in 1..Len(txs) : \E i \in 1..(j - 1) : IsDuplicatePair(txs[i], txs[j])}
        F[k \in 0..Len(txs)] ==
            IF k = 0 THEN <<>>
            ELSE IF k \in drop THEN F[k - 1] ELSE Append(F[k - 1], txs[k])
    IN  F[Len(txs)]

\* a detector that deletes what it flags
DropFlaggedDuplicates(txs) ==
    [duplicates |-> DuplicateLoop(txs, 0, 1, <<>>), transactions |-> WithoutFlagged(txs),
     raised |-> "none"]

\* the third operand of the condition is evaluated for a pair with equal
\* descriptions and near-equal amounts, and raises when one date is a date
\* and the other a datetime
SubtractionFails(txs) ==
    \E i, j \in 1..Len(txs) :
        /\ i < j
        /\ txs[i].description = txs[j].description
        /\ Abs(txs[i].amount.v - txs[j].amount.v) < Epsilon
        /\ ~Subtractable(txs[i].transaction_date, txs[j].transaction_date)

\* returns the candidates, and the argument list as the call leaves it; no
\* handler surrounds the loops, so the TypeError leaves the call
get_duplicate_transactions(txs) ==
    IF SubtractionFails(txs)
    THEN [duplicates |-> <<>>, transactions |-> txs, raised |-> "TypeError"]
    ELSE [duplicates |-> DuplicateLoop(txs, 0, 1, <<>>), transactions |-> txs,
          raised |-> "none"]

(***************************************************************************)
(* Typed duplicate harness: get_duplicate_transactions applied to lists of *)
(* up to MaxTypedRecs records the validator accepts, dated with dates and  *)
(* with datetimes.                                                         *)
(***************************************************************************)
TypedAmounts == {Float(100000), Float(100005)}
TypedDates ==
    {Date(2024, 1, 15), Date(2024, 1, 16), DateTime(2024, 1, 15, 0),
     DateTime(2024, 1, 16, 12), DateTime(2024, 1, 17, 0)}

TypedRecords ==
    {[t |-> "dict", description |-> Str(<<"A">>), amount |-> a, transaction_date |-> dt] :
        a \in TypedAmounts, dt \in TypedDates}

InitTyped ==
    /\ pc = "typed_start"
    /\ arg \in SeqsUpTo(TypedRecords, MaxTypedRecs)
    /\ result = None
    /\ uploaded_file = NoFile
    /\ df = NoTable
    /\ transactions = <<>>
    /\ valid_transactions = <<>>
    /\ errors = <<>>
    /\ duplicates = <<>>
    /\ categorized_transactions = <<>>
    /\ saved = <<>>
    /\ messages = <<>>
    /\ calls = <<>>

TypedCall ==
    /\ pc = "typed_start"
    /\ result' = get_duplicate_transactions(arg)
    /\ pc' = IF result'.raised = "none" THEN "typed_done" ELSE "typed_raised"
    /\ UNCHANGED <<uploaded_file, df, transactions, valid_transactions, errors,
                   duplicates, categorized_transactions, saved, messages, calls, arg>>

NextTyped == TypedCall

SpecTyped == InitTyped /\ [][NextTyped]_vars

\* C22: for every batch that validate_transactions accepts whole,
\* get_duplicate_transactions returns its list of candidates and raises
\* nothing, also when two records with the same description and amounts
\* closer than the threshold are dated with a date and a datetime.
C22_ReturnsForAccepted ==
    (/\ pc \in {"typed_done", "typed_raised"}
     /\ validate_transactions(arg).valid_transactions = arg
     /\ validate_transactions(arg).errors = <<>>)
        => result.raised = "none"

Reversed(txs) == [k \in 1..Len(txs) |-> txs[Len(txs) + 1 - k]]

\* the unordered pairs of records a list of candidates reports
ReportedPairs(candidates) ==
    { {candidates[k].transaction1, candidates[k].transaction2} :
         k \in 1..Len(candidates) }

\* C27: whether two records are reported as a candidate does not depend
\* on their order in the input: the batch read backwards gives a report
\* exactly when the batch does, and the same unordered pairs.
C27_OrderIndependent ==
    pc \in {"typed_done", "typed_raised"} =>
        \E backwards \in {get_duplicate_transactions(Reversed(arg))} :
           /\ (result.duplicates # <<>>) <=> (backwards.duplicates # <<>>)
           /\ ReportedPairs(result.duplicates) = ReportedPairs(backwards.duplicates)


(***************************************************************************)
(* TransactionParser.merge_similar_descriptions                             *)
(*                                                                         *)
(* difflib.SequenceMatcher(None, a, b).ratio() is 2*M/T, M the total size  *)
(* of the matching blocks and T the two lengths together.  The texts are   *)
(* far below the 200 characters from which difflib treats popular          *)
(* characters as junk.  Positions are counted from 1 and ranges include    *)
(* both ends.                                                              *)
(***************************************************************************)
ThresholdNumerator == 8
ThresholdDenominator == 10

\* length of the common run of a from i and b from j inside the ranges
RECURSIVE MatchLength(_, _, _, _, _, _)
MatchLength(a, b, i, j, ahi, bhi) ==
    IF i <= ahi /\ j <= bhi /\ a[i] = b[j]
    THEN 1 + MatchLength(a, b, i + 1, j + 1, ahi, bhi)
    ELSE 0

\* the longest block, of those the one earliest in a, of those the one
\* earliest in b
find_longest_match(a, b, alo, ahi, blo, bhi) ==
    LET size == [i \in alo..ahi |-> [j \in blo..bhi |-> MatchLength(a, b, i, j, ahi, bhi)]]
        bestsize == CHOOSE k \in 0..Len(a) :
                       /\ \A i \in alo..ahi : \A j \in blo..bhi : size[i][j] <= k
                       /\ k = 0 \/ \E i \in alo..ahi : \E j \in blo..bhi : size[i][j] = k
        besti == CHOOSE i \in alo..ahi :
                       /\ \E j \in blo..bhi : size[i][j] = bestsize
                       /\ \A h \in alo..(i - 1) : \A j \in blo..bhi : size[h][j] < bestsize
        bestj == CHOOSE j \in blo..bhi :
                       /\ size[besti][j] = bestsize
                       /\ \A h \in blo..(j - 1) : size[besti][h] < bestsize
    IN  IF alo > ahi \/ blo > bhi \/ bestsize = 0
        THEN [i |-> alo, j |-> blo, size |-> 0]
        ELSE [i |-> besti, j |-> bestj, size |-> bestsize]

\* get_matching_blocks: the longest block, then the blocks to its left and
\* to its right; the sum of their sizes
RECURSIVE MatchingSize(_, _, _, _, _, _)
MatchingSize(a, b, alo, ahi, blo, bhi) ==
    IF alo > ahi \/ blo > bhi THEN 0
    ELSE LET x == find_longest_match(a, b, alo, ahi, blo, bhi)
         IN  IF x.size = 0 THEN 0
             ELSE x.size
                  + MatchingSize(a, b, alo, x.i - 1, blo, x.j - 1)
                  + MatchingSize(a, b, x.i + x.size, ahi, x.j + x.size, bhi)

\* SequenceMatcher(None, description.lower(), other_description.lower())
\*     .ratio() > 0.8; the ratio of two empty texts is 1.0
Similar(description, other_description) ==
    LET a == Lower(description.s)
        b == Lower(other_description.s)
    IN  IF Len(a) + Len(b) = 0 THEN TRUE
        ELSE ThresholdDenominator * 2 * MatchingSize(a, b, 1, Len(a), 1, Len(b))
                > ThresholdNumerator * (Len(a) + Len(b))

\* description_groups[key] = value on a dict kept in insertion order
DictSet(dict, key, value) ==
    IF \E k \in 1..Len(dict) : dict[k].key = key
    THEN [k \in 1..Len(dict) |->
             IF dict[k].key = key THEN [key |-> key, value |-> value] ELSE dict[k]]
    ELSE Append(dict, [key |-> key, value |-> value])

\* the variant of the inner loop that does not mark what it takes
RECURSIVE FindSimilarUnmarked(_, _, _, _, _)
FindSimilarUnmarked(txs, j, description, similar_descriptions, processed_descriptions) ==
    IF j > Len(txs)
    THEN [similar_descriptions |-> similar_descriptions,
          processed_descriptions |-> processed_descriptions]
    ELSE IF /\ txs[j].description # description
            /\ txs[j].description \notin processed_descriptions
            /\ Similar(description, txs[j].description)
         THEN FindSimilarUnmarked(txs, j + 1, description,
                                  Append(similar_descriptions, txs[j].description),
                                  processed_descriptions)
         ELSE FindSimilarUnmarked(txs, j + 1, description, similar_descriptions,
                                  processed_descriptions)

\* for other_transaction in transactions
RECURSIVE FindSimilar(_, _, _, _, _)
FindSimilar(txs, j, description, similar_descriptions, processed_descriptions) ==
    IF j > Len(txs)
    THEN [similar_descriptions |-> similar_descriptions,
          processed_descriptions |-> processed_descriptions]
    ELSE IF /\ txs[j].description # description
            /\ txs[j].description \notin processed_descriptions
            /\ Similar(description, txs[j].description)
         THEN FindSimilar(txs, j + 1, description,
                          Append(similar_descriptions, txs[j].description),
                          processed_descriptions \cup {txs[j].description})
         ELSE FindSimilar(txs, j + 1, description, similar_descriptions,
                          processed_descriptions)

\* for transaction in transactions
RECURSIVE GroupFrom(_, _, _, _)
GroupFrom(txs, i, description_groups, processed_descriptions) ==
    IF i > Len(txs) THEN description_groups
    ELSE IF txs[i].description \in processed_descriptions
         THEN GroupFrom(txs, i + 1, description_groups, processed_descriptions)
         ELSE LET description == txs[i].description
                  found == FindSimilar(txs, 1, description, <<description>>,
                                       processed_descriptions)
              IN  GroupFrom(txs, i + 1,
                            IF Len(found.similar_descriptions) > 1
                            THEN DictSet(description_groups, description,
                                         found.similar_descriptions)
                            ELSE description_groups,
                            found.processed_descriptions \cup {description})

merge_similar_descriptions(txs) == GroupFrom(txs, 1, <<>>, {})

(***************************************************************************)
(* Grouping harness: merge_similar_descriptions applied to lists of up to  *)
(* MaxDescriptions records.                                                *)
(***************************************************************************)
DescriptionPool ==
    { <<"c", "a", "f", "e">>, <<"C", "a", "f", "e">>, <<"c", "a", "f", "e", "s">>, <<"c", "a", "f", "e", "x">>, <<"a", "a", "b", "b", "a", "a">>, <<"b", "a", "a", "b", "a", "a">>, <<"t", "e", "a">> }

DescribedRecords == { [description |-> Str(d)] : d \in DescriptionPool }

InitMerge ==
    /\ pc = "merge_start"
    /\ arg \in SeqsUpTo(DescribedRecords, MaxDescriptions)
    /\ result = None
    /\ uploaded_file = NoFile
    /\ df = NoTable
    /\ transactions = <<>>
    /\ valid_transactions = <<>>
    /\ errors = <<>>
    /\ duplicates = <<>>
    /\ categorized_transactions = <<>>
    /\ saved = <<>>
    /\ messages = <<>>
    /\ calls = <<>>

MergeCall ==
    /\ pc = "merge_start"
    /\ result' = merge_similar_descriptions(arg)
    /\ pc' = "merge_done"
    /\ UNCHANGED <<uploaded_file, df, transactions, valid_transactions, errors,
                   duplicates, categorized_transactions, saved, messages, calls, arg>>

NextMerge == MergeCall

SpecMerge == InitMerge /\ [][NextMerge]_vars

\* where a description first stands in the input
FirstPosition(description) ==
    CHOOSE k \in 1..Len(arg) :
        /\ arg[k].description = description
        /\ \A h \in 1..(k - 1) : arg[h].description # description

\* the groups of the result that hold the description, as key or as member
GroupsHolding(description) ==
    { g \in 1..Len(result) :
         \E k \in 1..Len(result[g].value) : result[g].value[k] = description }

\* the descriptions the result lists after the key of some group
Joined ==
    UNION { { result[g].value[k] : k \in 2..Len(result[g].value) } :
               g \in 1..Len(result) }

\* the descriptions of the input that no group took: the anchors
Anchors ==
    { arg[k].description : k \in 1..Len(arg) } \ Joined

\* C20: in the result of merge_similar_descriptions every description is
\* held by at most one group, as its key or as a member; every group has
\* at least two members, all different, the first of which is its key;
\* every other member has a ratio above 0.8 to the key, both in lower
\* case; and no anchor that stands earlier in the input than the key is
\* that similar to the member.
C20_Groups ==
    pc = "merge_done" =>
        /\ \A k \in 1..Len(arg) :
              Cardinality(GroupsHolding(arg[k].description)) <= 1
        /\ \A g \in 1..Len(result) :
           \E key \in {result[g].key} :
           \E members \in {result[g].value} :
              /\ Len(members) >= 2
              /\ \A k, h \in 1..Len(members) : members[k] = members[h] => k = h
              /\ members[1] = key
              /\ \A h \in 1..Len(result) : result[h].key = key => h = g
              /\ \A k \in 2..Len(members) :
                    /\ Similar(key, members[k])
                    /\ \E x \in 1..Len(arg) : arg[x].description = members[k]
                    /\ \A earlier \in Anchors :
                          (/\ earlier # members[k]
                           /\ FirstPosition(earlier) < FirstPosition(key))
                             => ~Similar(earlier, members[k])

\* cafe is similar to the anchors cafes and cafex and stands after both:
\* it is grouped with cafes, and cafex, which comes second, has no group
C20_Witness ==
    /\ pc = "merge_done"
    /\ arg = << [description |-> Str(<<"c", "a", "f", "e", "s">>)],
                [description |-> Str(<<"c", "a", "f", "e", "x">>)],
                [description |-> Str(<<"c", "a", "f", "e">>)] >>
    /\ Similar(Str(<<"c", "a", "f", "e", "x">>), Str(<<"c", "a", "f", "e">>))
    /\ ~Similar(Str(<<"c", "a", "f", "e", "s">>), Str(<<"c", "a", "f", "e", "x">>))
    /\ result = << [key |-> Str(<<"c", "a", "f", "e", "s">>),
                    value |-> <<Str(<<"c", "a", "f", "e", "s">>), Str(<<"c", "a", "f", "e">>)>>] >>

(***************************************************************************)
(* Duplicate detector harness: lists of records as the validator accepts   *)
(* them from the extractors (text description, float amount, date).        *)
(***************************************************************************)
DupDescriptions == {Str(<<"A">>), Str(<<"a">>)}
DupAmounts == {Float(100000), Float(100005), Float(100010), Float(105000)}
DupDates == {Date(2024, 2, 28), Date(2024, 2, 29), Date(2024, 3, 1)}

DupRecords ==
    {[t |-> "dict", description |-> d, amount |-> a, transaction_date |-> dt] :
        d \in DupDescriptions, a \in DupAmounts, dt \in DupDates}

InitDup ==
    /\ pc = "duplicates_start"
    /\ transactions \in SeqsUpTo(DupRecords, MaxDupRecs)
    /\ uploaded_file = NoFile
    /\ df = NoTable
    /\ valid_transactions = transactions
    /\ errors = <<>>
    /\ duplicates = <<>>
    /\ categorized_transactions = <<>>
    /\ saved = <<>>
    /\ messages = <<>>
    /\ calls = <<>>
    /\ arg = None
    /\ result = None

\* the call is given valid_transactions; transactions keeps the list as it
\* was before the call
DuplicatesCall ==
    /\ pc = "duplicates_start"
    /\ \E r \in {get_duplicate_transactions(valid_transactions)} :
           /\ duplicates' = r.duplicates
           /\ valid_transactions' = r.transactions
    /\ pc' = "duplicates_done"
    /\ UNCHANGED <<uploaded_file, df, transactions, errors, categorized_transactions,
                   saved, messages, calls,
                   arg, result>>

NextDup == DuplicatesCall

SpecDup == InitDup /\ [][NextDup]_vars

\* the three conditions of the duplicate policy, for input positions i < j
Flagged(txs, i, j) ==
    /\ txs[i].description.s = txs[j].description.s
    /\ Abs(txs[i].amount.v - txs[j].amount.v) < 10
    /\ Ordinal(txs[i].transaction_date) - Ordinal(txs[j].transaction_date) \in {-1, 0, 1}

\* C8: get_duplicate_transactions reports exactly the pairs i < j with
\* equal descriptions, amounts less than 0.01 apart and dates at most one
\* day apart, each once, in loop order, each with score 0.95.
C8_PairwisePolicy ==
    pc = "duplicates_done" =>
        LET n == Len(transactions)
            keys == {i * (n + 1) + j : <<i, j>> \in
                        {p \in (1..n) \X (1..n) : p[1] < p[2] /\ Flagged(transactions, p[1], p[2])}}
        IN  /\ Len(duplicates) = Cardinality(keys)
            /\ \A k \in 1..Len(duplicates) :
                 LET key == Nth(keys, k)
                     i == key \div (n + 1)
                     j == key % (n + 1)
                 IN  duplicates[k] = [transaction1 |-> transactions[i],
                                      transaction2 |-> transactions[j],
                                      similarity_score |-> 95]

\* amounts 100.00 and 100.005 one day apart are flagged, and a record 5.00
\* away is not
C8_Witness ==
    /\ pc = "duplicates_done"
    /\ Len(transactions) = 3
    /\ transactions[1].amount = Float(100000)
    /\ transactions[2].amount = Float(100005)
    /\ transactions[3].amount = Float(105000)
    /\ transactions[1].description = transactions[3].description
    /\ transactions[1].transaction_date = Date(2024, 2, 29)
    /\ transactions[2].transaction_date = Date(2024, 3, 1)
    /\ transactions[3].transaction_date = Date(2024, 2, 29)
    /\ Len(duplicates) = 1
    /\ duplicates[1].transaction2 = transactions[2]
    /\ duplicates[1].similarity_score = 95

(***************************************************************************)
(* FileProcessor.parse_date                                                *)
(***************************************************************************)
\* the position of the first occurrence of the text sep in s, 0 if none
FindFirst(s, sep) ==
    LET hits == {k \in 1..(Len(s) - Len(sep) + 1) : SubSeq(s, k, k + Len(sep) - 1) = sep}
    IN  IF hits = {} THEN 0 ELSE CHOOSE k \in hits : \A j \in hits : k <= j

MonthNames ==
    << <<"j", "a", "n", "u", "a", "r", "y">>,
       <<"f", "e", "b", "r", "u", "a", "r", "y">>,
       <<"m", "a", "r", "c", "h">>,
       <<"a", "p", "r", "i", "l">>,
       <<"m", "a", "y">>,
       <<"j", "u", "n", "e">>,
       <<"j", "u", "l", "y">>,
       <<"a", "u", "g", "u", "s", "t">>,
       <<"s", "e", "p", "t", "e", "m", "b", "e", "r">>,
       <<"o", "c", "t", "o", "b", "e", "r">>,
       <<"n", "o", "v", "e", "m", "b", "e", "r">>,
       <<"d", "e", "c", "e", "m", "b", "e", "r">> >>

\* the month a name denotes (%B: full name, %b: three-letter name), 0 if none
MonthOfName(kind, part) ==
    LET name(k) == IF kind = "B" THEN MonthNames[k] ELSE SubSeq(MonthNames[k], 1, 3)
        hits == {k \in 1..12 : name(k) = Lower(part)}
    IN  IF hits = {} THEN 0 ELSE CHOOSE k \in hits : TRUE

\* the value of an all-digit part for a numeric directive, -1 if the value
\* is not one the directive matches
NumericField(kind, v) ==
    CASE kind = "Y" -> v
      [] kind = "y" -> (IF v <= 68 THEN 2000 ELSE 1900) + v
      [] kind = "m" -> IF v \in 1..12 THEN v ELSE -1
      [] OTHER -> IF v \in 1..31 THEN v ELSE -1

\* the number of digits a numeric directive takes
FieldWidths(kind) ==
    CASE kind = "Y" -> {4} [] kind = "y" -> {2} [] OTHER -> {1, 2}

NameField(month) == IF month # 0 THEN month ELSE -1

\* the value a directive reads from its part of the text, -1 if the part
\* does not match the directive
FieldValue(kind, part) ==
    IF kind \in {"B", "b"} THEN NameField(MonthOfName(kind, part))
    ELSE IF Len(part) \in FieldWidths(kind) /\ AllDigits(part)
    THEN NumericField(kind, DigitsValue(part))
    ELSE -1

Format(f1, sep1, f2, sep2, f3) ==
    [fields |-> <<f1, f2, f3>>, sep1 |-> sep1, sep2 |-> sep2]

\* the format list with the day-first slash formats ahead of the month-first ones
date_formats_day_first ==
    << Format("Y", <<"-">>, "m", <<"-">>, "d"),
       Format("d", <<"/">>, "m", <<"/">>, "Y"),
       Format("d", <<"/">>, "m", <<"/">>, "y"),
       Format("m", <<"/">>, "d", <<"/">>, "Y"),
       Format("m", <<"/">>, "d", <<"/">>, "y"),
       Format("m", <<"-">>, "d", <<"-">>, "Y"),
       Format("m", <<"-">>, "d", <<"-">>, "y"),
       Format("d", <<"-">>, "m", <<"-">>, "Y"),
       Format("d", <<"-">>, "m", <<"-">>, "y"),
       Format("Y", <<"/">>, "m", <<"/">>, "d"),
       Format("B", <<" ">>, "d", <<",", " ">>, "Y"),
       Format("b", <<" ">>, "d", <<",", " ">>, "Y"),
       Format("d", <<" ">>, "B", <<" ">>, "Y"),
       Format("d", <<" ">>, "b", <<" ">>, "Y") >>

date_formats ==
    << Format("Y", <<"-">>, "m", <<"-">>, "d"),
       Format("m", <<"/">>, "d", <<"/">>, "Y"),
       Format("m", <<"/">>, "d", <<"/">>, "y"),
       Format("d", <<"/">>, "m", <<"/">>, "Y"),
       Format("d", <<"/">>, "m", <<"/">>, "y"),
       Format("m", <<"-">>, "d", <<"-">>, "Y"),
       Format("m", <<"-">>, "d", <<"-">>, "y"),
       Format("d", <<"-">>, "m", <<"-">>, "Y"),
       Format("d", <<"-">>, "m", <<"-">>, "y"),
       Format("Y", <<"/">>, "m", <<"/">>, "d"),
       Format("B", <<" ">>, "d", <<",", " ">>, "Y"),
       Format("b", <<" ">>, "d", <<",", " ">>, "Y"),
       Format("d", <<" ">>, "B", <<" ">>, "Y"),
       Format("d", <<" ">>, "b", <<" ">>, "Y") >>

\* datetime.date(y, m, d): None stands for ValueError
DateIfValid(y, m, d) == IF y < 1 \/ d > DaysInMonth(y, m) THEN None ELSE Date(y, m, d)

\* the date of the three values read, None (ValueError) when a part did
\* not match its directive or the day is not in the month
DateOfFields(fields, vals) ==
    IF \E k \in 1..3 : vals[k] = -1 THEN None
    ELSE DateIfValid(vals[CHOOSE k \in 1..3 : fields[k] \in {"Y", "y"}],
                     vals[CHOOSE k \in 1..3 : fields[k] \in {"m", "B", "b"}],
                     vals[CHOOSE k \in 1..3 : fields[k] = "d"])

\* the text after the first separator, cut at the second one
SplitRest(fmt, first, rest, p2) ==
    IF p2 = 0 THEN None
    ELSE DateOfFields(fmt.fields,
            [k \in 1..3 |->
                FieldValue(fmt.fields[k],
                           CASE k = 1 -> first
                             [] k = 2 -> SubSeq(rest, 1, p2 - 1)
                             [] OTHER -> SubSeq(rest, p2 + Len(fmt.sep2), Len(rest)))])

SplitSecond(fmt, first, rest) == SplitRest(fmt, first, rest, FindFirst(rest, fmt.sep2))

\* the text cut at the first separator
SplitFirst(s, fmt, p1) ==
    IF p1 = 0 THEN None
    ELSE SplitSecond(fmt, SubSeq(s, 1, p1 - 1), SubSeq(s, p1 + Len(fmt.sep1), Len(s)))

\* white space in a format matches a run of white space in the text: the
\* text with every such run replaced by one blank
RECURSIVE CollapseBlanks(_)
CollapseBlanks(s) ==
    IF s = <<>> THEN <<>>
    ELSE IF Head(s) \in Whitespace
         THEN <<" ">> \o CollapseBlanks(LStrip(s))
         ELSE <<Head(s)>> \o CollapseBlanks(Tail(s))

HasBlank(sep) == \E k \in 1..Len(sep) : sep[k] = " "

TextFor(s, fmt) ==
    IF HasBlank(fmt.sep1) \/ HasBlank(fmt.sep2) THEN CollapseBlanks(s) ELSE s

StrptimeText(s, fmt) == SplitFirst(s, fmt, FindFirst(s, fmt.sep1))

\* datetime.strptime(s, fmt).date(): None stands for ValueError
Strptime(s, fmt) == StrptimeText(TextFor(s, fmt), fmt)

\* the loop over date_formats from index k on: the first format that
\* parses wins
RECURSIVE TryFormats(_, _)
FirstParsed(parsed, s, k) == IF parsed # None THEN parsed ELSE TryFormats(s, k + 1)

TryFormats(s, k) ==
    IF k > Len(date_formats) THEN None
    ELSE FirstParsed(Strptime(s, date_formats[k]), s, k)

\* pd.isna(x) or not x
IsNaOrFalsy(x) == x.t = "nan" \/ ~Truthy(x)

\* str(x) for the cells of the model: text, or NaN which prints as nan
PyStr(x) ==
    CASE x.t = "str" -> x.s
      [] x.t = "nan" -> <<"n", "a", "n">>

\* pd.to_datetime(date_str).date() as the fallback: the texts of the model
\* that no explicit format parses have no reading as a date, and the
\* generic parser raises on them
PandasFallback(s) == None

FormatsThenFallback(parsed, s) == IF parsed # None THEN parsed ELSE PandasFallback(s)

ParseDateText(s) == FormatsThenFallback(TryFormats(s, 1), s)

parse_date(date_str) ==
    IF IsNaOrFalsy(date_str) THEN None ELSE ParseDateText(Strip(PyStr(date_str)))

(***************************************************************************)
(* parse_date harness: the function applied to numeric dates a<sep>b<sep>y *)
(* with or without leading zeros, and to one literal per remaining format. *)
(***************************************************************************)
DigitChar(k) == CHOOSE c \in Digits : DigitVal(c) = k

\* the decimal text of n < 100, with a leading zero below 10 if padded
NumberText(n, padded) ==
    IF n >= 10 THEN <<DigitChar(n \div 10), DigitChar(n % 10)>>
    ELSE IF padded THEN <<"0", DigitChar(n)>>
    ELSE <<DigitChar(n)>>

DateNumbers == 1..MaxDateNumber \cup {28, 29, 30, 31}

\* the texts of the years 2024 (a leap year) and 2023
YearTexts == {<<"2", "0", "2", "4">>, <<"2", "0", "2", "3">>}

NumericDateText(a, sep, b, year, padded) ==
    NumberText(a, padded) \o <<sep>> \o NumberText(b, padded) \o <<sep>> \o year

LiteralDateTexts ==
    { <<"2", "0", "2", "4", "-", "0", "1", "-", "1", "5">>,
      <<"2", "0", "2", "4", "/", "0", "1", "/", "1", "5">>,
      <<"0", "3", "/", "0", "4", "/", "2", "4">>,
      <<"1", "3", "-", "0", "4", "-", "2", "4">>,
      <<"J", "a", "n", "u", "a", "r", "y", " ", "5", ",", " ", "2", "0", "2", "4">>,
      <<"J", "a", "n", " ", "5", ",", " ", "2", "0", "2", "4">>,
      <<"5", " ", "J", "a", "n", "u", "a", "r", "y", " ", "2", "0", "2", "4">>,
      <<"5", " ", "J", "a", "n", " ", "2", "0", "2", "4">>,
      <<" ", "0", "3", "/", "0", "4", "/", "2", "0", "2", "4", " ">>,
      <<"s", "o", "o", "n">>,
      <<>> }

DateArguments ==
    {Str(NumericDateText(a, sep, b, year, padded)) :
        a \in DateNumbers, b \in DateNumbers, sep \in {"/", "-"}, year \in YearTexts,
        padded \in BOOLEAN}
    \cup {Str(text) : text \in LiteralDateTexts}
    \cup {NaN, None}

InitDate ==
    /\ pc = "date_start"
    /\ arg \in DateArguments
    /\ result = None
    /\ uploaded_file = NoFile
    /\ df = NoTable
    /\ transactions = <<>>
    /\ valid_transactions = <<>>
    /\ errors = <<>>
    /\ duplicates = <<>>
    /\ categorized_transactions = <<>>
    /\ saved = <<>>
    /\ messages = <<>>
    /\ calls = <<>>

ParseDateCall ==
    /\ pc = "date_start"
    /\ result' = parse_date(arg)
    /\ pc' = "date_done"
    /\ UNCHANGED <<uploaded_file, df, transactions, valid_transactions, errors, duplicates,
                   categorized_transactions, saved, messages, calls, arg>>

NextDate == ParseDateCall

SpecDate == InitDate /\ [][NextDate]_vars

\* C13: the result is the date of the first format of the list, in order,
\* that matches the trimmed text.  For a slash date a/b/YYYY the result has
\* month a and day b whenever a is a month and b a day of it; it has day a
\* and month b only when that reading fails (then a > 12 and b <= 12); and
\* it is null when neither reading is a date.
C13_MonthFirst ==
    (pc = "date_done" /\ arg.t = "str") =>
        \E s \in {Strip(arg.s)} :
          /\ \E parsed \in {[k \in 1..Len(date_formats) |-> Strptime(s, date_formats[k])]} :
                \A k \in 1..Len(date_formats) :
                   (parsed[k] # None /\ \A j \in 1..(k - 1) : parsed[j] = None)
                   => result = parsed[k]
          /\ \E p \in {FindFirst(s, <<"/">>)} :
                (p \in 2..3 /\ Len(s) \in (p + 6)..(p + 7)
                   /\ s[Len(s) - 4] = "/" /\ AllDigits(SubSeq(s, 1, p - 1))
                   /\ AllDigits(SubSeq(s, p + 1, Len(s) - 5))
                   /\ AllDigits(SubSeq(s, Len(s) - 3, Len(s))))
                => \E a \in {DigitsValue(SubSeq(s, 1, p - 1))},
                      b \in {DigitsValue(SubSeq(s, p + 1, Len(s) - 5))},
                      y \in {DigitsValue(SubSeq(s, Len(s) - 3, Len(s)))} :
                      IF a \in 1..12 /\ b \in 1..DaysInMonth(y, a) THEN result = Date(y, a, b)
                      ELSE IF b \in 1..12 /\ a \in 1..DaysInMonth(y, b)
                      THEN result = Date(y, b, a) /\ a > 12
                      ELSE result = None

\* "03/04/2024" was parsed as the 4th of March
C13_Witness ==
    /\ pc = "date_done"
    /\ arg = Str(<<"0", "3", "/", "0", "4", "/", "2", "0", "2", "4">>)
    /\ result = Date(2024, 3, 4)

(***************************************************************************)
(* FileProcessor.parse_amount                                              *)
(***************************************************************************)
\* the characters of the class [$€£¥₹,\s]; the four non-ASCII currency
\* signs are the one-character texts "euro", "pound", "yen", "rupee"
AmountNoise == {"$", "euro", "pound", "yen", "rupee", ","} \cup Whitespace

RECURSIVE RemoveChars(_, _)
RemoveChars(s, drop) ==
    IF s = <<>> THEN <<>>
    ELSE IF Head(s) \in drop THEN RemoveChars(Tail(s), drop)
    ELSE <<Head(s)>> \o RemoveChars(Tail(s), drop)

\* parentheses as negative (accounting format)
Unparenthesize(s) ==
    IF s # <<>> /\ Head(s) = "(" /\ s[Len(s)] = ")"
    THEN <<"-">> \o SubSeq(s, 2, Len(s) - 1)
    ELSE s

\* float(amount_str), None on ValueError
FloatOrNone(r) == IF r.ok THEN Float(r.v) ELSE None

\* parse_amount without the accounting notation
parse_amount_no_parens(amount_str) ==
    IF IsNaOrFalsy(amount_str) THEN None
    ELSE IF amount_str.t = "float" THEN amount_str
    ELSE FloatOrNone(ParseFloat(RemoveChars(Strip(PyStr(amount_str)), AmountNoise)))

\* a float cell prints as a numeral that float() reads back to the same
\* value (Python's repr round trip), so it is returned as it is
parse_amount(amount_str) ==
    IF IsNaOrFalsy(amount_str) THEN None
    ELSE IF amount_str.t = "float" THEN amount_str
    ELSE FloatOrNone(ParseFloat(Unparenthesize(RemoveChars(Strip(PyStr(amount_str)),
                                                           AmountNoise))))

(***************************************************************************)
(* parse_amount harness: the function applied to amount texts made of a    *)
(* wrapper (plain, minus sign, parentheses), a currency sign, a units part *)
(* and a fraction, to texts that are no amount, and to numeric cells.      *)
(***************************************************************************)
Part(text, v) == [text |-> text, v |-> v]

\* units numerals 0..MaxUnits and one with a thousands separator
UnitsParts ==
    {Part(NumberText(n, FALSE), 1000 * n) : n \in 0..MaxUnits}
    \cup {Part(<<"1", ",", "2", "3", "4">>, 1234000)}

FractionParts ==
    {Part(<<>>, 0), Part(<<".", "0", "0">>, 0), Part(<<".", "5", "6">>, 560),
     Part(<<".", "5">>, 500)}

CurrencySigns == {<<>>, <<"$">>, <<"euro">>}

Wrappers == {"plain", "minus", "parentheses"}

Wrapped(wrapper, body) ==
    CASE wrapper = "parentheses" -> <<"(">> \o body \o <<")">>
      [] wrapper = "minus" -> <<"-">> \o body
      [] OTHER -> body

AmountText(wrapper, sign, units, fraction, padded) ==
    IF padded THEN <<" ">> \o Wrapped(wrapper, sign \o units \o fraction) \o <<" ">>
    ELSE Wrapped(wrapper, sign \o units \o fraction)

\* texts whose residue is not a numeral
NonNumericTexts ==
    { <<"a", "b", "c">>, <<>>, <<" ">>, <<"$">>, <<"(", ")">>, <<"(", "a", "b", "c", ")">>,
      <<"1", ".", "2", ".", "3">>, <<"(", "-", "5", ".", "0", "0", ")">>,
      <<"4", "2", ".", "0", "0", "U", "S", "D">> }

NumericCells == {Float(0), Float(42000), Float(-5000)}

AmountArguments ==
    {Str(AmountText(w, c, u.text, f.text, padded)) :
        w \in Wrappers, c \in CurrencySigns, u \in UnitsParts, f \in FractionParts,
        padded \in BOOLEAN}
    \cup {Str(text) : text \in NonNumericTexts}
    \cup NumericCells \cup {NaN, None}

InitAmount ==
    /\ pc = "amount_start"
    /\ arg \in AmountArguments
    /\ result = None
    /\ uploaded_file = NoFile
    /\ df = NoTable
    /\ transactions = <<>>
    /\ valid_transactions = <<>>
    /\ errors = <<>>
    /\ duplicates = <<>>
    /\ categorized_transactions = <<>>
    /\ saved = <<>>
    /\ messages = <<>>
    /\ calls = <<>>

ParseAmountCall ==
    /\ pc = "amount_start"
    /\ result' = parse_amount(arg)
    /\ pc' = "amount_done"
    /\ UNCHANGED <<uploaded_file, df, transactions, valid_transactions, errors, duplicates,
                   categorized_transactions, saved, messages, calls, arg>>

NextAmount == ParseAmountCall

SpecAmount == InitAmount /\ [][NextAmount]_vars

\* C14: for a text made of a currency sign, a units numeral (with or
\* without thousands separators) and a fraction, with surrounding
\* whitespace or not, the result is that number; it is the negative of
\* the number when the text is wrapped in parentheses or has a minus sign;
\* and the result is null for a text whose residue is not a numeral.
C14_AmountText ==
    pc = "amount_done" =>
        /\ \A w \in Wrappers, c \in CurrencySigns, u \in UnitsParts, f \in FractionParts,
              padded \in BOOLEAN :
              arg = Str(AmountText(w, c, u.text, f.text, padded))
              => result = Float((IF w = "plain" THEN 1 ELSE -1) * (u.v + f.v))
        /\ (arg.t = "str" /\ arg.s \in NonNumericTexts) => result = None

\* "($1,234.56)" was read as -1234.56
C14_Witness ==
    /\ pc = "amount_done"
    /\ arg = Str(<<"(", "$", "1", ",", "2", "3", "4", ".", "5", "6", ")">>)
    /\ result = Float(-1234560)

\* C16 as stated: the result is null only for a missing or empty input
\* and for a text that is no amount; a numeric cell, zero included, and
\* the text "0" yield their value.
C16_ZeroIsAnAmount ==
    pc = "amount_done" =>
        /\ arg.t = "float" => result = arg
        /\ arg = Str(<<"0">>) => result = Float(0)
        /\ result = None =>
              \/ arg \in {NaN, None}
              \/ arg.t = "str" /\ arg.s \in NonNumericTexts

(***************************************************************************)
(* FileProcessor.standardize_csv_columns                                   *)
(*                                                                         *)
(* A table is [columns |-> <<header, ...>>, rows |-> <<row, ...>>], a row  *)
(* the sequence of its cells in column order.  A raw header is             *)
(* [name, cased, padded]: name is the header lower-cased and stripped,     *)
(* cased says it has upper-case letters, padded that it has surrounding    *)
(* whitespace.                                                             *)
(***************************************************************************)
Header(name, cased, padded) == [name |-> name, cased |-> cased, padded |-> padded]

\* col.lower().strip()
NormalizeHeader(h) == Header(h.name, FALSE, FALSE)

Mapping(standard_col, variations) ==
    [standard_col |-> standard_col, variations |-> variations]

column_mapping ==
    << Mapping("date", <<"date", "transaction_date", "trans_date", "posting_date",
                         "post_date", "transaction date">>),
       Mapping("description", <<"description", "memo", "details", "transaction_details",
                                "payee", "merchant">>),
       Mapping("amount", <<"amount", "transaction_amount", "trans_amount">>),
       Mapping("debit", <<"debit", "withdrawal", "out", "outgoing">>),
       Mapping("credit", <<"credit", "deposit", "in", "incoming">>),
       Mapping("balance", <<"balance", "running_balance", "account_balance", "running_bal">>),
       Mapping("category", <<"category", "type", "transaction_type">>) >>

\* name in df.columns
HasColumn(columns, name) == \E k \in 1..Len(columns) : columns[k] = Header(name, FALSE, FALSE)

\* df.rename(columns={variation: standard_col})
Rename(columns, variation, standard_col) ==
    [k \in 1..Len(columns) |->
        IF columns[k] = Header(variation, FALSE, FALSE)
        THEN Header(standard_col, FALSE, FALSE) ELSE columns[k]]

\* the inner loop without its break: every variation present is renamed
RECURSIVE ApplyVariationsAll(_, _, _, _)
ApplyVariationsAll(columns, standard_col, variations, k) ==
    IF k > Len(variations) THEN columns
    ELSE ApplyVariationsAll(IF HasColumn(columns, variations[k])
                            THEN Rename(columns, variations[k], standard_col)
                            ELSE columns,
                            standard_col, variations, k + 1)

\* the inner loop: the first variation present is renamed, then break
RECURSIVE ApplyVariations(_, _, _, _)
ApplyVariations(columns, standard_col, variations, k) ==
    IF k > Len(variations) THEN columns
    ELSE IF HasColumn(columns, variations[k])
    THEN Rename(columns, variations[k], standard_col)
    ELSE ApplyVariations(columns, standard_col, variations, k + 1)

\* the outer loop over column_mapping, from entry k on
RECURSIVE ApplyMappings(_, _)
ApplyMappings(columns, k) ==
    IF k > Len(column_mapping) THEN columns
    ELSE ApplyMappings(
            ApplyVariations(columns, column_mapping[k].standard_col,
                            column_mapping[k].variations, 1),
            k + 1)

\* works on a copy: the caller's table is not touched
standardize_csv_columns(table) ==
    [table EXCEPT !.columns =
        ApplyMappings([k \in 1..Len(table.columns) |-> NormalizeHeader(table.columns[k])], 1)]

(***************************************************************************)
(* standardize_csv_columns harness: the function applied to header lists   *)
(* of up to MaxHeaders pairwise distinct raw headers.  Two raw headers may *)
(* differ in letter case or surrounding blanks only.                       *)
(***************************************************************************)
HeaderNames == {"date", "transaction_date", "memo", "details", "type", "notes"}

\* each name written with capitals, and written with surrounding blanks
RawHeaders ==
    {Header(name, TRUE, FALSE) : name \in HeaderNames}
    \cup {Header(name, FALSE, TRUE) : name \in HeaderNames}

HeaderLists ==
    {hs \in SeqsUpTo(RawHeaders, MaxHeaders) :
        \A i \in 1..Len(hs), j \in 1..Len(hs) : i # j => hs[i] # hs[j]}

InitStandardize ==
    /\ pc = "standardize_start"
    /\ arg \in HeaderLists
    /\ result = None
    /\ uploaded_file = NoFile
    /\ df = NoTable
    /\ transactions = <<>>
    /\ valid_transactions = <<>>
    /\ errors = <<>>
    /\ duplicates = <<>>
    /\ categorized_transactions = <<>>
    /\ saved = <<>>
    /\ messages = <<>>
    /\ calls = <<>>

StandardizeCall ==
    /\ pc = "standardize_start"
    /\ result' = standardize_csv_columns([columns |-> arg, rows |-> <<>>]).columns
    /\ pc' = "standardize_done"
    /\ UNCHANGED <<uploaded_file, df, transactions, valid_transactions, errors, duplicates,
                   categorized_transactions, saved, messages, calls, arg>>

NextStandardize == StandardizeCall

SpecStandardize == InitStandardize /\ [][NextStandardize]_vars

\* the aliases of a field that are the lower-cased, trimmed name of a header
PresentAliases(field, headers) ==
    {k \in 1..Len(field.variations) :
        \E h \in 1..Len(headers) : headers[h].name = field.variations[k]}

\* the first alias of the field, in list order, among the headers
FirstPresentAlias(field, headers) ==
    field.variations[CHOOSE k \in PresentAliases(field, headers) :
                        \A j \in PresentAliases(field, headers) : k <= j]

\* the headers that end up under the canonical name of the field
RenamedTo(field, headers, columns) ==
    {h \in 1..Len(headers) :
        /\ columns[h].name = field.standard_col
        /\ \E k \in 1..Len(field.variations) : headers[h].name = field.variations[k]}

C24_DistinctCanonicalColumns ==
    pc = "standardize_done" =>
        \A h1, h2 \in 1..Len(result) :
            (/\ h1 # h2
             /\ arg[h1] # arg[h2]
             /\ \E f \in 1..Len(column_mapping) :
                   result[h1].name = column_mapping[f].standard_col)
              => result[h1].name # result[h2].name

(***************************************************************************)
(* FileProcessor.detect_csv_format                                         *)
(*                                                                         *)
(* A header is its text here, since the rules test substrings of it.       *)
(***************************************************************************)
Rule(format_name, required_cols) ==
    [format_name |-> format_name, required_cols |-> required_cols]

formats ==
    << Rule("chase", <<<<"d", "a", "t", "e">>, <<"d", "e", "s", "c", "r", "i", "p", "t", "i", "o", "n">>, <<"a", "m", "o", "u", "n", "t">>, <<"t", "y", "p", "e">>, <<"b", "a", "l", "a", "n", "c", "e">>>>),
       Rule("bofa", <<<<"d", "a", "t", "e">>, <<"d", "e", "s", "c", "r", "i", "p", "t", "i", "o", "n">>, <<"a", "m", "o", "u", "n", "t">>, <<"r", "u", "n", "n", "i", "n", "g", "_", "b", "a", "l">>>>),
       Rule("wells_fargo", <<<<"d", "a", "t", "e">>, <<"a", "m", "o", "u", "n", "t">>, <<"d", "e", "s", "c", "r", "i", "p", "t", "i", "o", "n">>>>),
       Rule("citi", <<<<"d", "a", "t", "e">>, <<"d", "e", "s", "c", "r", "i", "p", "t", "i", "o", "n">>, <<"d", "e", "b", "i", "t">>, <<"c", "r", "e", "d", "i", "t">>>>),
       Rule("generic", <<<<"d", "a", "t", "e">>, <<"d", "e", "s", "c", "r", "i", "p", "t", "i", "o", "n">>, <<"a", "m", "o", "u", "n", "t">>>>) >>

\* the headers as they are, without lower-casing and trimming
RawColumns(headers) == headers

\* [col.lower().strip() for col in df.columns]
LoweredColumns(headers) == [k \in 1..Len(headers) |-> Strip(Lower(headers[k]))]

\* req_col in col
Contains(col, req_col) == FindFirst(col, req_col) # 0

\* all(any(req_col in col for col in columns) for req_col in required_cols)
RuleSatisfied(required_cols, columns) ==
    \A r \in 1..Len(required_cols) :
        \E c \in 1..Len(columns) : Contains(columns[c], required_cols[r])

\* the loop over formats.items(), from rule k on
RECURSIVE DetectFrom(_, _)
DetectFrom(columns, k) ==
    IF k > Len(formats) THEN "unknown"
    ELSE IF RuleSatisfied(formats[k].required_cols, columns) THEN formats[k].format_name
    ELSE DetectFrom(columns, k + 1)

detect_csv_format(headers) == DetectFrom(LoweredColumns(headers), 1)

(***************************************************************************)
(* detect_csv_format harness: header lists made of up to MaxFormatHeaders  *)
(* headers of a pool, in pool order or reversed, in lower case or with a   *)
(* capital and surrounding blanks.                                         *)
(***************************************************************************)
HeaderPool ==
    << <<"d", "a", "t", "e">>, <<"d", "e", "s", "c", "r", "i", "p", "t", "i", "o", "n">>, <<"a", "m", "o", "u", "n", "t">>, <<"t", "y", "p", "e">>, <<"b", "a", "l", "a", "n", "c", "e">>, <<"r", "u", "n", "n", "i", "n", "g", "_", "b", "a", "l">>,
       <<"d", "e", "b", "i", "t">>, <<"c", "r", "e", "d", "i", "t">>, <<"n", "o", "t", "e", "s">> >>

UpperChar(c) ==
    IF \E k \in 1..26 : LowerCase[k] = c
    THEN UpperCase[CHOOSE k \in 1..26 : LowerCase[k] = c]
    ELSE c

\* the header with a capital first letter and a blank on each side
Styled(text) == <<" ", UpperChar(Head(text))>> \o Tail(text) \o <<" ">>

\* the headers of the pool at the positions chosen, in pool order or
\* reversed, styled or not
Arranged(chosen, reversed, styled) ==
    [k \in 1..Cardinality(chosen) |->
        (IF styled THEN Styled(HeaderPool[Nth(chosen, IF reversed THEN Cardinality(chosen) + 1 - k ELSE k)])
         ELSE HeaderPool[Nth(chosen, IF reversed THEN Cardinality(chosen) + 1 - k ELSE k)])]

Choices == {chosen \in SUBSET (1..Len(HeaderPool)) : Cardinality(chosen) <= MaxFormatHeaders}

InitDetect ==
    /\ pc = "detect_start"
    /\ \E chosen \in Choices, reversed \in BOOLEAN, styled \in BOOLEAN :
          arg = Arranged(chosen, reversed, styled)
    /\ result = None
    /\ uploaded_file = NoFile
    /\ df = NoTable
    /\ transactions = <<>>
    /\ valid_transactions = <<>>
    /\ errors = <<>>
    /\ duplicates = <<>>
    /\ categorized_transactions = <<>>
    /\ saved = <<>>
    /\ messages = <<>>
    /\ calls = <<>>

DetectCall ==
    /\ pc = "detect_start"
    /\ result' = detect_csv_format(arg)
    /\ pc' = "detect_done"
    /\ UNCHANGED <<uploaded_file, df, transactions, valid_transactions, errors, duplicates,
                   categorized_transactions, saved, messages, calls, arg>>

NextDetect == DetectCall

SpecDetect == InitDetect /\ [][NextDetect]_vars

\* the rules every required substring of which is in a lower-cased,
\* trimmed header of the list
SatisfiedRules(headers) ==
    {k \in 1..Len(formats) :
        \A r \in 1..Len(formats[k].required_cols) :
            \E c \in 1..Len(headers) :
                Contains(Strip(Lower(headers[c])), formats[k].required_cols[r])}

\* C18: the result is the tag of the first satisfied rule in the order
\* chase, bofa, wells_fargo, citi, generic, or unknown if there is none;
\* and it is the same for the same headers in the other order, in the
\* other letter case and with or without surrounding blanks.
C18_FirstRuleSatisfied ==
    pc = "detect_done" =>
        \E sat \in {SatisfiedRules(arg)} :
          /\ <<formats[1].format_name, formats[2].format_name, formats[3].format_name,
               formats[4].format_name, formats[5].format_name>>
                = <<"chase", "bofa", "wells_fargo", "citi", "generic">>
          /\ sat = {} => result = "unknown"
          /\ sat # {} => result = formats[Nth(sat, 1)].format_name
          /\ \E chosen \in {{p \in 1..Len(HeaderPool) :
                                \E c \in 1..Len(arg) : Strip(Lower(arg[c])) = HeaderPool[p]}} :
                /\ \E reversed \in BOOLEAN, styled \in BOOLEAN :
                      arg = Arranged(chosen, reversed, styled)
                /\ \A reversed \in BOOLEAN, styled \in BOOLEAN :
                      detect_csv_format(Arranged(chosen, reversed, styled)) = result

\* Running_bal, Amount, Description, Date with capitals and blanks, in
\* this order, are tagged bofa
C18_Witness ==
    /\ pc = "detect_done"
    /\ arg = <<Styled(<<"r", "u", "n", "n", "i", "n", "g", "_", "b", "a", "l">>), Styled(<<"a", "m", "o", "u", "n", "t">>), Styled(<<"d", "e", "s", "c", "r", "i", "p", "t", "i", "o", "n">>), Styled(<<"d", "a", "t", "e">>)>>
    /\ result = "bofa"

\* C25: a table whose headers are date, description and amount, the rule
\* set of generic, in any order and style, is tagged generic.
C25_GenericTagged ==
    (/\ pc = "detect_done"
     /\ {Strip(Lower(arg[c])) : c \in 1..Len(arg)}
           = {formats[5].required_cols[r] : r \in 1..Len(formats[5].required_cols)})
        => result = "generic"

(***************************************************************************)
(* FileProcessor.parse_transactions_from_csv                               *)
(***************************************************************************)
\* row[name]: the cell of the column of that name (the tables of the model
\* have no two headers that normalize to the same name)
ColumnIndex(columns, name) ==
    CHOOSE k \in 1..Len(columns) : columns[k] = Header(name, FALSE, FALSE)

Cell(table, row, name) == row[ColumnIndex(table.columns, name)]

\* series.fillna(0) for one numeric cell
FillNa0(x) == IF x.t = "nan" THEN 0 ELSE x.v

\* debit - credit: the polarity of the sign convention
SynthesizedAmountDebitPositive(credit, debit) == Float(FillNa0(debit) - FillNa0(credit))

\* df['credit'].fillna(0) - df['debit'].fillna(0) for one row
SynthesizedAmount(credit, debit) == Float(FillNa0(credit) - FillNa0(debit))

\* what stands for the table when the subtraction of the two columns
\* raises: a column read as text (object dtype) keeps its str cells through
\* fillna(0), and str - number is a TypeError
SubtractionRaised == [columns |-> <<>>, rows |-> <<>>, raised |-> "TypeError"]

HasTextCell(table, name) ==
    \E k \in 1..Len(table.rows) : Cell(table, table.rows[k], name).t = "str"

\* df['amount'] = ...: the column is appended
WithSynthesizedAmount(table) ==
    IF HasTextCell(table, "credit") \/ HasTextCell(table, "debit")
    THEN SubtractionRaised
    ELSE [columns |-> Append(table.columns, Header("amount", FALSE, FALSE)),
          rows |-> [k \in 1..Len(table.rows) |->
                      Append(table.rows[k],
                             SynthesizedAmount(Cell(table, table.rows[k], "credit"),
                                               Cell(table, table.rows[k], "debit")))]]

\* str(row['category']).strip() when pd.notna
CategoryText(cell) == IF cell.t = "nan" THEN None ELSE Str(Strip(PyStr(cell)))

Placeholders == {<<"n", "a", "n">>, <<"n", "o", "n", "e">>, <<>>}

Transaction(description, amount, transaction_date, category) ==
    [t |-> "dict", description |-> description, amount |-> amount,
     transaction_date |-> transaction_date, category |-> category,
     account_type |-> "Bank Account"]

Skip == [emit |-> FALSE, transaction |-> None]
Emit(transaction) == [emit |-> TRUE, transaction |-> transaction]

\* the category cell, carried when the column exists and the cell is not NaN
CategoryOf(table, row) ==
    IF HasColumn(table.columns, "category")
    THEN CategoryText(Cell(table, row, "category"))
    ELSE None

\* the three tests of the loop body, without the one on the description
RowResultAnyDescription(transaction_date, amount, description, category) ==
    IF transaction_date = None THEN Skip
    ELSE IF amount = None THEN Skip
    ELSE Emit(Transaction(Str(description), amount, transaction_date, category))

\* the three tests of the loop body on the normalized fields, in the
\* order of the code: date, amount, description
RowResult(transaction_date, amount, description, category) ==
    IF transaction_date = None THEN Skip
    ELSE IF amount = None THEN Skip
    ELSE IF description = <<>> \/ Lower(description) \in Placeholders THEN Skip
    ELSE Emit(Transaction(Str(description), amount, transaction_date, category))

\* the loop body for one row: a record, or the row is skipped
ProcessRow(table, row, amount_column) ==
    RowResult(parse_date(Cell(table, row, "date")),
              parse_amount(Cell(table, row, amount_column)),
              Strip(PyStr(Cell(table, row, "description"))),
              CategoryOf(table, row))

\* transactions.append(transaction), or continue
AppendEmitted(out, r) == IF r.emit THEN Append(out, r.transaction) ELSE out

\* the loop over the rows of the table, from row k on
RECURSIVE ProcessRows(_, _, _, _)
ProcessRows(table, amount_column, k, out) ==
    IF k > Len(table.rows) THEN out
    ELSE ProcessRows(table, amount_column, k + 1,
                     AppendEmitted(out, ProcessRow(table, table.rows[k], amount_column)))

\* what a call of the extractor comes to: the list returned and the
\* diagnostic shown, or the exception that leaves the call
Extracted(txs, diagnostic) ==
    [transactions |-> txs, diagnostic |-> diagnostic, raised |-> "none"]

Raised(exception) == [transactions |-> <<>>, diagnostic |-> "none", raised |-> exception]

\* df.empty: no rows or no columns
IsEmptyTable(table) == Len(table.rows) = 0 \/ Len(table.columns) = 0

\* the amount column scenarios taking debit and credit before amount
AmountSourceDebitCreditFirst(std) ==
    IF HasColumn(std.columns, "debit") /\ HasColumn(std.columns, "credit")
    THEN WithSynthesizedAmount([std EXCEPT !.columns = Rename(std.columns, "amount", "amount_0")])
    ELSE IF HasColumn(std.columns, "amount") THEN std
    ELSE NoTable

\* the amount column scenarios: the table whose amount column the rows are
\* read from, NoTable when there is no amount source
AmountSource(std) ==
    IF HasColumn(std.columns, "amount") THEN std
    ELSE IF HasColumn(std.columns, "debit") /\ HasColumn(std.columns, "credit")
    THEN WithSynthesizedAmount(std)
    ELSE NoTable

\* the row loop, or the abort when no amount source was found
ProcessOrAbort(source) ==
    IF source = NoTable THEN Extracted(<<>>, "no_amount_column")
    ELSE IF source = SubtractionRaised THEN Raised(SubtractionRaised.raised)
    ELSE Extracted(ProcessRows(source, "amount", 1, <<>>), "none")

\* the required-columns step letting a table without a date column through
CheckRequiredColumnsLax(std) ==
    IF ~HasColumn(std.columns, "description")
    THEN Extracted(<<>>, "missing_columns")
    ELSE IF ~HasColumn(std.columns, "date")
    THEN Extracted(<<>>, "none")
    ELSE ProcessOrAbort(AmountSource(std))

\* the required-columns step on the standardized table
CheckRequiredColumns(std) ==
    IF ~HasColumn(std.columns, "date") \/ ~HasColumn(std.columns, "description")
    THEN Extracted(<<>>, "missing_columns")
    ELSE ProcessOrAbort(AmountSource(std))

\* returns the records and the diagnostic shown through st.error
parse_transactions_from_csv(table) ==
    IF IsEmptyTable(table) THEN Extracted(<<>>, "none")
    ELSE CheckRequiredColumns(standardize_csv_columns(table))

(***************************************************************************)
(* FileProcessor.parse_transactions_from_pdf                               *)
(*                                                                         *)
(* The four patterns have one shape, date \s+ (.+?) \s+ amount, and differ *)
(* in the date token: digit counts and separator.  re.findall is computed  *)
(* on the characters: leftmost match, \s+ greedy, .+? lazy and without     *)
(* line breaks, the amount token greedy, then on from the end of the       *)
(* match.                                                                  *)
(***************************************************************************)
At(text, k) == IF k \in 1..Len(text) THEN text[k] ELSE ""

\* the length of the longest run of characters of S from position p on
RunLength(text, p, S) ==
    CHOOSE n \in 0..Len(text) :
        /\ \A k \in p..(p + n - 1) : At(text, k) \in S
        /\ At(text, p + n) \notin S

Pattern(first, sep, last) == [first |-> first, sep |-> sep, last |-> last]

\* \d{1,2}/\d{1,2}/\d{2,4}, \d{1,2}-\d{1,2}-\d{2,4}, the first one again,
\* \d{4}-\d{1,2}-\d{1,2}
patterns ==
    << Pattern(1..2, "/", 2..4),
       Pattern(1..2, "-", 2..4),
       Pattern(1..2, "/", 2..4),
       Pattern({4}, "-", 1..2) >>

\* the position after the date token that starts at i, 0 if there is none.
\* A digit group is followed by a character that is no digit, so it is the
\* whole run of digits and the run has to have a length the group allows.
DateTokenEndAfter(text, pat, s2) ==
    IF /\ At(text, s2) = pat.sep
       /\ RunLength(text, s2 + 1, Digits) \in pat.last
       /\ At(text, s2 + 1 + RunLength(text, s2 + 1, Digits)) \in Whitespace
    THEN s2 + 1 + RunLength(text, s2 + 1, Digits)
    ELSE 0

DateTokenEndFrom(text, pat, s1) ==
    IF At(text, s1) = pat.sep /\ RunLength(text, s1 + 1, Digits) \in 1..2
    THEN DateTokenEndAfter(text, pat, s1 + 1 + RunLength(text, s1 + 1, Digits))
    ELSE 0

DateTokenEnd(text, i, pat) ==
    IF RunLength(text, i, Digits) \in pat.first
    THEN DateTokenEndFrom(text, pat, i + RunLength(text, i, Digits))
    ELSE 0

\* -?\$?[\d,]+\.?\d* from position p: the position after the token, 0 if
\* there is none
AmountEndAfter(text, q) ==
    IF At(text, q) = "." THEN q + 1 + RunLength(text, q + 1, Digits) ELSE q

AmountEndFrom(text, q) ==
    IF RunLength(text, q, Digits \cup {","}) = 0 THEN 0
    ELSE AmountEndAfter(text, q + RunLength(text, q, Digits \cup {","}))

AmountEnd(text, p) ==
    AmountEndFrom(text, p + (IF At(text, p) = "-" THEN 1 ELSE 0)
                          + (IF At(text, p + (IF At(text, p) = "-" THEN 1 ELSE 0)) = "$"
                             THEN 1 ELSE 0))

NoMatch == [found |-> FALSE]

\* the groups of a match and the position after it
Groups(text, i, e0, d, e, a) ==
    [found |-> TRUE,
     date_str |-> SubSeq(text, i, e0 - 1),
     description |-> SubSeq(text, d, e),
     amount_str |-> SubSeq(text, a, AmountEnd(text, a) - 1),
     end |-> AmountEnd(text, a)]

\* description from d to e, followed by white space and an amount token
IsDescription(text, d, e) ==
    /\ d <= e
    /\ \A k \in d..e : text[k] # NewLine
    /\ RunLength(text, e + 1, Whitespace) >= 1
    /\ AmountEnd(text, e + 1 + RunLength(text, e + 1, Whitespace)) # 0

\* e0 is the position after the date token.  A candidate <<w, e>> gives w
\* characters to the first \s+ and ends the description at e.
Candidates(text, e0) ==
    {c \in (1..RunLength(text, e0, Whitespace)) \X (e0..Len(text)) :
        IsDescription(text, e0 + c[1], c[2])}

\* the first \s+ takes as much of the white space as leaves a match, the
\* description as little
BestCandidate(cands) ==
    CHOOSE c \in cands : \A o \in cands : c[1] > o[1] \/ (c[1] = o[1] /\ c[2] <= o[2])

MatchOf(text, i, e0, best) ==
    Groups(text, i, e0, e0 + best[1], best[2],
           best[2] + 1 + RunLength(text, best[2] + 1, Whitespace))

MatchAmong(text, i, e0, cands) ==
    IF cands = {} THEN NoMatch ELSE MatchOf(text, i, e0, BestCandidate(cands))

MatchAfterDate(text, i, e0) ==
    IF e0 = 0 THEN NoMatch ELSE MatchAmong(text, i, e0, Candidates(text, e0))

MatchAt(text, i, pat) == MatchAfterDate(text, i, DateTokenEnd(text, i, pat))

\* re.findall(pattern, text) from position i on
RECURSIVE FindAll(_, _, _)
FindNext(text, i, pat, match) ==
    IF match.found THEN <<match>> \o FindAll(text, match.end, pat)
    ELSE FindAll(text, i + 1, pat)

FindAll(text, i, pat) ==
    IF i > Len(text) THEN <<>>
    ELSE FindNext(text, i, pat, MatchAt(text, i, pat))

\* the loop body without the test on the date
MatchResultAnyDate(transaction_date, amount, description) ==
    IF amount = None THEN Skip
    ELSE IF description = <<>> THEN Skip
    ELSE Emit(Transaction(Str(description), amount, transaction_date, None))

\* the loop body for one match on its normalized fields
MatchResult(transaction_date, amount, description) ==
    IF transaction_date = None THEN Skip
    ELSE IF amount = None THEN Skip
    ELSE IF description = <<>> THEN Skip
    ELSE Emit(Transaction(Str(description), amount, transaction_date, None))

ProcessMatch(match) ==
    MatchResult(parse_date(Str(match.date_str)), parse_amount(Str(match.amount_str)),
                Strip(match.description))

\* for match in matches
RECURSIVE ProcessMatches(_, _, _)
ProcessMatches(matches, k, out) ==
    IF k > Len(matches) THEN out
    ELSE ProcessMatches(matches, k + 1, AppendEmitted(out, ProcessMatch(matches[k])))

\* for pattern in patterns
RECURSIVE ProcessPatterns(_, _, _)
ProcessPatterns(text, k, out) ==
    IF k > Len(patterns) THEN out
    ELSE ProcessPatterns(text, k + 1,
                         ProcessMatches(FindAll(text, 1, patterns[k]), 1, out))

\* text is a str; the empty text returns at once
parse_transactions_from_pdf(text) ==
    IF ~Truthy(text) THEN <<>> ELSE ProcessPatterns(text.s, 1, <<>>)

(***************************************************************************)
(* Text extraction harness: parse_transactions_from_pdf applied to texts   *)
(* of up to MaxLines statement lines.                                      *)
(***************************************************************************)
StatementLines ==
    { <<"3", "/", "4", "/", "2", "4", " ", "T", "e", "a", " ", "$", "4", ".", "5", "0">>,
      <<"1", "3", "/", "1", "3", "/", "2", "4", " ", "T", "e", "a", " ", "2">>,
      <<"2", "0", "2", "4", "-", "0", "1", "-", "1", "5", " ", "R", "e", "n", "t", " ", "1", ",", "2", "0", "0", ".", "0", "0">>,
      <<"1", "-", "5", "-", "2", "4", " ", "G", "a", "s", " ", "-", "3", "0">>,
      <<"1", "/", "2", "/", "2", "4", " ", " ", " ", "5">>,
      <<"1", "/", "2", "/", "2", "4", " ", "F", "e", "e", " ", ",">>,
      <<"1", "/", "2", "/", "2", "4", " ", "P", "a", "y", " ", "0">>,
      <<"O", "p", "e", "n", "i", "n", "g", " ", "b", "a", "l", "a", "n", "c", "e">> }

RECURSIVE JoinLines(_)
JoinLines(lines) ==
    IF lines = <<>> THEN <<>>
    ELSE IF Len(lines) = 1 THEN lines[1]
    ELSE lines[1] \o <<NewLine>> \o JoinLines(Tail(lines))

InitPdf ==
    /\ pc = "pdf_start"
    /\ \E lines \in SeqsUpTo(StatementLines, MaxLines) : arg = Str(JoinLines(lines))
    /\ result = None
    /\ uploaded_file = NoFile
    /\ df = NoTable
    /\ transactions = <<>>
    /\ valid_transactions = <<>>
    /\ errors = <<>>
    /\ duplicates = <<>>
    /\ categorized_transactions = <<>>
    /\ saved = <<>>
    /\ messages = <<>>
    /\ calls = <<>>

PdfCall ==
    /\ pc = "pdf_start"
    /\ transactions' = parse_transactions_from_pdf(arg)
    /\ pc' = "pdf_done"
    /\ UNCHANGED <<uploaded_file, df, valid_transactions, errors, duplicates,
                   categorized_transactions, saved, messages, calls, arg, result>>

NextPdf == PdfCall

SpecPdf == InitPdf /\ [][NextPdf]_vars

\* the matches of the four patterns, pattern after pattern
AllMatches(text) ==
    FindAll(text, 1, patterns[1]) \o FindAll(text, 1, patterns[2])
        \o FindAll(text, 1, patterns[3]) \o FindAll(text, 1, patterns[4])

\* what each match normalizes to
NormalizedMatches(matches) ==
    [k \in 1..Len(matches) |->
        [date |-> parse_date(Str(matches[k].date_str)),
         amount |-> parse_amount(Str(matches[k].amount_str)),
         description |-> Strip(matches[k].description)]]

\* C19: every record of the result has a date, a numeric amount, a
\* trimmed description that is not empty, no category and the account
\* type Bank Account; the result holds one record for each match whose
\* date and amount normalize and whose description is not blank, built
\* from that match alone, and nothing for the other matches; the empty
\* text gives the empty list.
C19_TextRecords ==
    pc = "pdf_done" =>
        /\ \A k \in 1..Len(transactions) :
              /\ transactions[k].transaction_date.t = "date"
              /\ transactions[k].amount.t = "float"
              /\ transactions[k].description.s # <<>>
              /\ Strip(transactions[k].description.s) = transactions[k].description.s
              /\ transactions[k].category = None
              /\ transactions[k].account_type = "Bank Account"
        /\ arg.s = <<>> => transactions = <<>>
        /\ \E norm \in {NormalizedMatches(AllMatches(arg.s))} :
           \E kept \in {{k \in DOMAIN norm : /\ norm[k].date # None
                                             /\ norm[k].amount # None
                                             /\ norm[k].description # <<>>}} :
              /\ Len(transactions) = Cardinality(kept)
              /\ \A k \in 1..Len(transactions) :
                    \E n \in {norm[Nth(kept, k)]} :
                       /\ transactions[k].transaction_date = n.date
                       /\ transactions[k].amount = n.amount
                       /\ transactions[k].description = Str(n.description)

\* a line with the date 13/13/24 is dropped, the line before it is kept
C19_Witness ==
    /\ pc = "pdf_done"
    /\ arg = Str(<<"3", "/", "4", "/", "2", "4", " ", "T", "e", "a", " ", "$", "4", ".", "5", "0">> \o <<NewLine>> \o <<"1", "3", "/", "1", "3", "/", "2", "4", " ", "T", "e", "a", " ", "2">>)
    /\ Len(AllMatches(arg.s)) = 4
    /\ Len(transactions) = 2
    /\ transactions[1].transaction_date = Date(2024, 3, 4)
    /\ transactions[1].amount = Float(4500)

\* the number of lines of a text
LineCount(text) ==
    IF text = <<>> THEN 0
    ELSE 1 + Cardinality({p \in 1..Len(text) : text[p] = NewLine})

\* C28: for a text whose lines are each written in one date style the
\* text extractor emits at most one record for a line, so no more records
\* than the text has lines, and no two records of the result are equal.
C28_OneRecordPerLine ==
    pc = "pdf_done" =>
        /\ Len(transactions) <= LineCount(arg.s)
        /\ \A k, h \in 1..Len(transactions) :
              transactions[k] = transactions[h] => k = h

(***************************************************************************)
(* Tabular extraction harness: parse_transactions_from_csv applied to      *)
(* tables of up to MaxRows rows over a set of header layouts.              *)
(***************************************************************************)
IsoDate == Str(<<"2", "0", "2", "4", "-", "0", "1", "-", "1", "5">>)
BadDate == Str(<<"1", "3", "/", "1", "3", "/", "2", "0", "2", "4">>)
PaddedDescription == Str(<<" ", "C", "o", "f", "f", "e", "e", " ">>)
PlaceholderDescription == Str(<<"N", "a", "N">>)
BlankDescription == Str(<<" ">>)
DollarAmount == Str(<<"$", "4", "2", ".", "0", "0">>)
DollarDebit == Str(<<"$", "5", "0", ".", "0", "0">>)
WordAmount == Str(<<"a", "b", "c">>)

H(name) == Header(name, TRUE, FALSE)

\* a header row and the rows the model draws under it
Layout(columns, rows) == [columns |-> columns, rows |-> rows]

DateCells == {IsoDate, BadDate}
DescriptionCells == {PaddedDescription, PlaceholderDescription, BlankDescription}
AmountCells == {DollarAmount, WordAmount, Float(-5000)}
DebitCells == {NaN, Float(50000)}
CreditCells == {NaN, Float(50000), Float(20000)}

Layouts ==
    { Layout(<<H("date"), H("description"), H("amount")>>,
             DateCells \X DescriptionCells \X AmountCells),
      Layout(<<H("date"), H("description"), H("debit"), H("credit")>>,
             {IsoDate, BadDate} \X {PaddedDescription} \X DebitCells \X CreditCells),
      Layout(<<H("date"), H("description"), H("debit"), H("credit")>>,
             {IsoDate} \X {PaddedDescription} \X {NaN, DollarDebit} \X {NaN, Float(20000)}),
      Layout(<<H("date"), H("description"), H("amount"), H("debit"), H("credit")>>,
             {IsoDate} \X {PaddedDescription} \X {DollarAmount, Float(0)} \X DebitCells
                 \X {NaN, Float(20000)}),
      Layout(<<H("transaction date"), Header("memo", FALSE, TRUE), H("withdrawal"), H("deposit")>>,
             {IsoDate} \X {PaddedDescription} \X DebitCells \X CreditCells),
      Layout(<<H("date"), H("description"), H("amount"), H("type")>>,
             {IsoDate, NaN} \X {PaddedDescription, NaN} \X {DollarAmount, NaN}
                 \X {NaN, Str(<<"F", " ">>)}),
      Layout(<<H("date"), H("description"), H("debit")>>,
             {IsoDate} \X {PaddedDescription} \X DebitCells),
      Layout(<<H("date"), H("description"), H("credit")>>,
             {IsoDate} \X {PaddedDescription} \X CreditCells),
      Layout(<<H("date"), H("description")>>,
             {IsoDate, BadDate} \X {PaddedDescription}),
      Layout(<<H("description"), H("amount")>>,
             {PaddedDescription} \X {DollarAmount, WordAmount}),
      Layout(<<H("date"), H("amount")>>,
             {IsoDate, BadDate} \X {DollarAmount}),
      Layout(<<H("posting date"), H("description"), H("amount")>>,
             {IsoDate} \X {PaddedDescription} \X {DollarAmount, WordAmount}),
      Layout(<<H("posting date"), H("memo"), H("debit"), H("credit")>>,
             {IsoDate} \X {PaddedDescription} \X DebitCells \X CreditCells),
      Layout(<<H("balance")>>,
             {<<c>> : c \in {Float(5000), NaN}}) }

InitCsv ==
    /\ pc = "csv_start"
    /\ \E L \in Layouts : \E rs \in SeqsUpTo(L.rows, MaxRows) :
          df = [columns |-> L.columns, rows |-> rs]
    /\ uploaded_file = NoFile
    /\ transactions = <<>>
    /\ valid_transactions = <<>>
    /\ errors = <<>>
    /\ duplicates = <<>>
    /\ categorized_transactions = <<>>
    /\ saved = <<>>
    /\ messages = <<>>
    /\ calls = <<>>
    /\ arg = None
    /\ result = None

CsvCall ==
    /\ pc = "csv_start"
    /\ \E r \in {parse_transactions_from_csv(df)} :
          /\ transactions' = r.transactions
          /\ messages' = IF r.diagnostic = "none" THEN messages
                         ELSE Append(messages, r.diagnostic)
          /\ pc' = IF r.raised = "none" THEN "csv_done" ELSE "csv_raised"
    /\ UNCHANGED <<uploaded_file, df, valid_transactions, errors, duplicates,
                   categorized_transactions, saved, calls,
                   arg, result>>

NextCsv == CsvCall

SpecCsv == InitCsv /\ [][NextCsv]_vars

\* the table after column standardization, and what the claims say of it
Std == standardize_csv_columns(df)
HasDate == HasColumn(Std.columns, "date")
HasDescription == HasColumn(Std.columns, "description")
HasAmount == HasColumn(Std.columns, "amount")
HasDebitCredit == HasColumn(Std.columns, "debit") /\ HasColumn(Std.columns, "credit")

\* the normalized amount of row k of table std: the amount cell when there
\* is an amount column, else credit - debit with a missing cell counted as 0
NormalizedAmount(std, k) ==
    IF HasColumn(std.columns, "amount") THEN parse_amount(Cell(std, df.rows[k], "amount"))
    ELSE parse_amount(Float(FillNa0(Cell(std, df.rows[k], "credit"))
                            - FillNa0(Cell(std, df.rows[k], "debit"))))

TrimmedDescription(std, k) == Strip(PyStr(Cell(std, df.rows[k], "description")))

NormalizedDate(std, k) == parse_date(Cell(std, df.rows[k], "date"))

\* what each row of table std normalizes to
NormalizedRows(std) ==
    [k \in 1..Len(df.rows) |->
        [date |-> NormalizedDate(std, k),
         amount |-> NormalizedAmount(std, k),
         description |-> TrimmedDescription(std, k)]]

\* the rows that normalize: date and amount non-null, description neither
\* empty nor a placeholder
SurvivingRows(norm) ==
    {k \in DOMAIN norm :
        /\ norm[k].date # None
        /\ norm[k].amount # None
        /\ norm[k].description # <<>>
        /\ Lower(norm[k].description) \notin {<<"n", "a", "n">>, <<"n", "o", "n", "e">>}}

\* C4 as stated: in a table with debit and credit columns and no amount
\* column, a debit-only row (an outflow) yields a positive amount and a
\* credit-only row (an inflow) a negative one.
C4_SignConvention ==
    (pc = "csv_done" /\ HasDate /\ HasDescription /\ ~HasAmount /\ HasDebitCredit
        /\ Len(transactions) = Len(df.rows)) =>
        \A k \in 1..Len(df.rows) :
            LET debit == Cell(Std, df.rows[k], "debit")
                credit == Cell(Std, df.rows[k], "credit")
            IN  /\ (debit.t = "float" /\ debit.v > 0 /\ credit.t = "nan")
                      => transactions[k].amount.v > 0
                /\ (credit.t = "float" /\ credit.v > 0 /\ debit.t = "nan")
                      => transactions[k].amount.v < 0

\* C5: for a table that reaches the amount step (it has rows and the date
\* and description columns), the amounts come from the amount column if
\* there is one, even beside debit and credit columns; else from credit -
\* debit with a missing cell as 0 if both columns exist; else the result
\* is empty with the no-amount-column diagnostic.
C5_AmountSource ==
    (pc = "csv_done" /\ Len(df.rows) > 0 /\ HasDate /\ HasDescription) =>
        IF HasAmount \/ HasDebitCredit
        THEN \E std \in {Std} : \E norm \in {NormalizedRows(std)} :
               \E rows \in {SurvivingRows(norm)} :
                 /\ messages = <<>>
                 /\ Len(transactions) = Cardinality(rows)
                 /\ \A k \in 1..Len(transactions) :
                      \E r \in {Nth(rows, k)} :
                        IF HasColumn(std.columns, "amount")
                        THEN transactions[k].amount
                                = parse_amount(Cell(std, df.rows[r], "amount"))
                        ELSE transactions[k].amount.v
                                = FillNa0(Cell(std, df.rows[r], "credit"))
                                  - FillNa0(Cell(std, df.rows[r], "debit"))
        ELSE transactions = <<>> /\ messages = <<"no_amount_column">>

\* amount, debit and credit columns side by side: the amount cell is taken
C5_Witness ==
    /\ pc = "csv_done"
    /\ HasAmount /\ HasDebitCredit
    /\ Len(df.rows) = 1
    /\ Cell(Std, df.rows[1], "debit") = Float(50000)
    /\ Len(transactions) = 1
    /\ transactions[1].amount = Float(42000)

\* C6 as stated: a table without a date or description column yields the
\* empty list and the missing-columns diagnostic, whatever its rows.
C6_MissingColumnsAlways ==
    (pc = "csv_done" /\ (~HasDate \/ ~HasDescription)) =>
        transactions = <<>> /\ messages = <<"missing_columns">>

\* C6 amended: the same for a table that has at least one row.
C6_MissingColumns ==
    (pc = "csv_done" /\ Len(df.rows) > 0 /\ (~HasDate \/ ~HasDescription)) =>
        transactions = <<>> /\ messages = <<"missing_columns">>

\* two rows that would parse, under headers without a date column
C6_Witness ==
    /\ pc = "csv_done"
    /\ ~HasDate /\ HasDescription /\ HasAmount
    /\ Len(df.rows) = 2
    /\ \A k \in 1..2 : NormalizedAmount(Std, k) # None
    /\ transactions = <<>>
    /\ messages = <<"missing_columns">>

\* C7: for a table with the date and description columns and an amount
\* source, the result holds one record for each row that normalizes, in
\* row order, built from that row alone, and nothing for the other rows;
\* no diagnostic and no error entry is produced.
C7_RowLocal ==
    (pc = "csv_done" /\ HasDate /\ HasDescription /\ (HasAmount \/ HasDebitCredit)) =>
        \E norm \in {NormalizedRows(Std)} : \E rows \in {SurvivingRows(norm)} :
            /\ Len(transactions) = Cardinality(rows)
            /\ \A k \in 1..Len(transactions) :
                 \E r \in {Nth(rows, k)} :
                     /\ transactions[k].description = Str(norm[r].description)
                     /\ transactions[k].transaction_date = norm[r].date
                     /\ transactions[k].amount = norm[r].amount
                     /\ transactions[k].account_type = "Bank Account"
            /\ messages = <<>>
            /\ errors = <<>>

\* the first of two rows has an unparseable date, the second is emitted
C7_Witness ==
    /\ pc = "csv_done"
    /\ HasDate /\ HasDescription /\ HasAmount
    /\ Len(df.rows) = 2
    /\ NormalizedDate(Std, 1) = None
    /\ Len(transactions) = 1
    /\ transactions[1].transaction_date = Date(2024, 1, 15)

\* C15 as stated: for the headers Posting Date, Memo, Debit, Credit the
\* standardized columns are date, description, debit, credit, with no
\* amount column, and extraction of a table under them gets past the
\* required-columns check.
C15_PostingDateHeaders ==
    df.columns = <<H("posting date"), H("memo"), H("debit"), H("credit")>> =>
        /\ Std.columns = <<Header("date", FALSE, FALSE), Header("description", FALSE, FALSE),
                           Header("debit", FALSE, FALSE), Header("credit", FALSE, FALSE)>>
        /\ (pc = "csv_done" /\ Len(df.rows) > 0) => messages # <<"missing_columns">>

\* C11 as stated, for tabular extraction: no exception leaves
\* parse_transactions_from_csv; every call ends with a list of records, or
\* with the empty list and a diagnostic.
C11_NoExceptionEscapes == pc # "csv_raised"

(***************************************************************************)
(* Extraction followed by validation, run twice by a caller that keeps its *)
(* table.  FileProcessor has only static methods and TransactionParser     *)
(* holds nothing but its categorizer, so the one thing a first run can     *)
(* leave behind for a second is the table it was given.                    *)
(***************************************************************************)
\* the caller's table after a call that standardized it in place
TableAfterExtractionInPlace(table) ==
    IF IsEmptyTable(table) THEN table ELSE standardize_csv_columns(table)

\* the caller's table after parse_transactions_from_csv: the function
\* rebinds its local name to the copy standardize_csv_columns made, and
\* df['amount'] = ... is set on that copy
TableAfterExtraction(table) == table

\* what one run hands back: the accepted records and the error list, or
\* the exception that ended extraction
RunOutcome(e, valid, errs) ==
    [valid_transactions |-> valid, errors |-> errs,
     diagnostic |-> e.diagnostic, raised |-> e.raised]

ValidateExtracted(e, v) == RunOutcome(e, v.valid_transactions, v.errors)

ValidateIfExtracted(e) ==
    IF e.raised # "none" THEN RunOutcome(e, <<>>, <<>>)
    ELSE ValidateExtracted(e, validate_transactions(e.transactions))

ExtractAndValidate(table) == ValidateIfExtracted(parse_transactions_from_csv(table))

InitTwice ==
    /\ pc = "twice_start"
    /\ \E L \in Layouts : \E rs \in SeqsUpTo(L.rows, MaxRows) :
          df = [columns |-> L.columns, rows |-> rs]
    /\ arg = df
    /\ result = <<>>
    /\ uploaded_file = NoFile
    /\ transactions = <<>>
    /\ valid_transactions = <<>>
    /\ errors = <<>>
    /\ duplicates = <<>>
    /\ categorized_transactions = <<>>
    /\ saved = <<>>
    /\ messages = <<>>
    /\ calls = <<>>

\* one run on the table the caller holds
RunPipeline ==
    /\ pc \in {"twice_start", "twice_once"}
    /\ \E r \in {ExtractAndValidate(df)} :
          /\ result' = Append(result, r)
          /\ valid_transactions' = r.valid_transactions
          /\ errors' = r.errors
    /\ df' = TableAfterExtraction(df)
    /\ pc' = IF pc = "twice_start" THEN "twice_once" ELSE "twice_done"
    /\ UNCHANGED <<uploaded_file, transactions, duplicates, categorized_transactions,
                   saved, messages, calls, arg>>

NextTwice == RunPipeline

SpecTwice == InitTwice /\ [][NextTwice]_vars

TableInput(table) == [kind |-> "table", table |-> table, text |-> None]
TextInput(text) == [kind |-> "text", table |-> NoTable, text |-> text]

\* the extractor's result for either kind of input
ExtractFrom(input) ==
    IF input.kind = "table" THEN parse_transactions_from_csv(input.table)
    ELSE Extracted(parse_transactions_from_pdf(input.text), "none")

InitAccept ==
    /\ pc = "accept_start"
    /\ \/ \E L \in Layouts : \E rs \in SeqsUpTo(L.rows, MaxRows) :
             arg = TableInput([columns |-> L.columns, rows |-> rs])
       \/ \E lines \in SeqsUpTo(StatementLines, MaxLines) :
             arg = TextInput(Str(JoinLines(lines)))
    /\ result = None
    /\ uploaded_file = NoFile
    /\ df = NoTable
    /\ transactions = <<>>
    /\ valid_transactions = <<>>
    /\ errors = <<>>
    /\ duplicates = <<>>
    /\ categorized_transactions = <<>>
    /\ saved = <<>>
    /\ messages = <<>>
    /\ calls = <<>>

ExtractCall ==
    /\ pc = "accept_start"
    /\ \E r \in {ExtractFrom(arg)} :
          /\ transactions' = r.transactions
          /\ pc' = IF r.raised = "none" THEN "accept_extracted" ELSE "accept_raised"
    /\ UNCHANGED <<uploaded_file, df, valid_transactions, errors, duplicates,
                   categorized_transactions, saved, messages, calls, arg, result>>

ValidateOutput ==
    /\ pc = "accept_extracted"
    /\ \E v \in {validate_transactions(transactions)} :
          /\ valid_transactions' = v.valid_transactions
          /\ errors' = v.errors
          /\ transactions' = v.transactions
    /\ pc' = "accept_done"
    /\ UNCHANGED <<uploaded_file, df, duplicates, categorized_transactions, saved,
                   messages, calls, arg, result>>

NextAccept == ExtractCall \/ ValidateOutput

SpecAccept == InitAccept /\ [][NextAccept]_vars

\* C26: validate_transactions accepts every record an extractor emits: the
\* valid records are the extractor's output, record for record, and the
\* error list is empty, for every table and every text.
C26_OutputAccepted ==
    pc = "accept_done" =>
        /\ valid_transactions = ExtractFrom(arg).transactions
        /\ valid_transactions = transactions
        /\ errors = <<>>

\* a text of two lines, one with the amount 0: four records (each line is
\* matched by two patterns), all accepted
C26_Witness ==
    /\ pc = "accept_done"
    /\ arg.kind = "text"
    /\ Len(valid_transactions) = 4
    /\ \E k \in 1..4 : valid_transactions[k].amount = Float(0)
    /\ \E k \in 1..4 : valid_transactions[k].amount = Float(4500)

(***************************************************************************)
(* FileProcessor.get_file_stats                                            *)
(*                                                                         *)
(* Amounts are exact decimals (thousandths); the sums are exact.           *)
(***************************************************************************)
\* the statistics of an empty batch: {}
NoStats == <<>>

RECURSIVE SumAmounts(_)
SumAmounts(txs) ==
    IF txs = <<>> THEN 0 ELSE Head(txs).amount.v + SumAmounts(Tail(txs))

IsCredit(transaction) == transaction.amount.v > 0
IsDebit(transaction) == transaction.amount.v < 0

\* df[df['amount'] > 0] and df[df['amount'] < 0]
CreditRows(txs) == SelectSeq(txs, IsCredit)
DebitRows(txs) == SelectSeq(txs, IsDebit)

\* df['transaction_date'].min() and .max()
MinDate(txs) ==
    CHOOSE d \in {txs[k].transaction_date : k \in 1..Len(txs)} :
        \A k \in 1..Len(txs) : Ordinal(d) <= Ordinal(txs[k].transaction_date)
MaxDate(txs) ==
    CHOOSE d \in {txs[k].transaction_date : k \in 1..Len(txs)} :
        \A k \in 1..Len(txs) : Ordinal(d) >= Ordinal(txs[k].transaction_date)

\* df['amount'].min() and .max()
MinAmount(txs) ==
    CHOOSE a \in {txs[k].amount : k \in 1..Len(txs)} :
        \A k \in 1..Len(txs) : a.v <= txs[k].amount.v
MaxAmount(txs) ==
    CHOOSE a \in {txs[k].amount : k \in 1..Len(txs)} :
        \A k \in 1..Len(txs) : a.v >= txs[k].amount.v

TotalCredits(txs) ==
    IF Len(CreditRows(txs)) > 0 THEN Float(SumAmounts(CreditRows(txs))) ELSE Float(0)

\* the total of the debits without abs()
TotalDebitsSigned(txs) ==
    IF Len(DebitRows(txs)) > 0 THEN Float(SumAmounts(DebitRows(txs))) ELSE Float(0)

TotalDebits(txs) ==
    IF Len(DebitRows(txs)) > 0 THEN Float(Abs(SumAmounts(DebitRows(txs)))) ELSE Float(0)

get_file_stats(txs) ==
    IF txs = <<>> THEN NoStats
    ELSE [total_transactions |-> Len(txs),
          date_range |-> [start |-> MinDate(txs), end |-> MaxDate(txs)],
          amount_range |-> [min |-> MinAmount(txs), max |-> MaxAmount(txs)],
          total_credits |-> TotalCredits(txs),
          total_debits |-> TotalDebits(txs),
          unique_descriptions |->
              Cardinality({txs[k].description : k \in 1..Len(txs)})]

(***************************************************************************)
(* Statistics harness: get_file_stats applied to batches of up to          *)
(* MaxStatRecs records as the extractors emit them.                        *)
(***************************************************************************)
StatDescriptions == {Str(<<"A">>), Str(<<"a">>)}
StatAmounts == {Float(-5000), Float(-250), Float(0), Float(4500)}
StatDates == {Date(2023, 12, 31), Date(2024, 1, 31), Date(2024, 2, 1)}

StatRecords ==
    {Transaction(d, a, dt, None) :
        d \in StatDescriptions, a \in StatAmounts, dt \in StatDates}

InitStats ==
    /\ pc = "stats_start"
    /\ arg \in SeqsUpTo(StatRecords, MaxStatRecs)
    /\ result = None
    /\ uploaded_file = NoFile
    /\ df = NoTable
    /\ transactions = <<>>
    /\ valid_transactions = <<>>
    /\ errors = <<>>
    /\ duplicates = <<>>
    /\ categorized_transactions = <<>>
    /\ saved = <<>>
    /\ messages = <<>>
    /\ calls = <<>>

StatsCall ==
    /\ pc = "stats_start"
    /\ result' = get_file_stats(arg)
    /\ pc' = "stats_done"
    /\ UNCHANGED <<uploaded_file, df, transactions, valid_transactions, errors,
                   duplicates, categorized_transactions, saved, messages, calls, arg>>

NextStats == StatsCall

SpecStats == InitStats /\ [][NextStats]_vars

\* the sum of the amounts of the records at the positions of S
RECURSIVE SumAt(_)
SumAt(S) ==
    IF S = {} THEN 0
    ELSE LET k == CHOOSE x \in S : TRUE IN arg[k].amount.v + SumAt(S \ {k})

\* C21: for a batch that is not empty get_file_stats reports the number of
\* records, the least and the greatest date, the least and the greatest
\* amount, the sum of the amounts above zero, the absolute value of the
\* sum of the amounts below zero and the number of different descriptions;
\* the two totals are not negative and their difference is the sum of all
\* amounts.  For the empty batch the statistics are empty.
C21_Stats ==
    pc = "stats_done" =>
        IF arg = <<>> THEN DOMAIN result = {}
        ELSE /\ result.total_transactions = Len(arg)
             /\ \E k \in 1..Len(arg) : arg[k].transaction_date = result.date_range.start
             /\ \E k \in 1..Len(arg) : arg[k].transaction_date = result.date_range.end
             /\ \A k \in 1..Len(arg) :
                   /\ DaysBetween(arg[k].transaction_date, result.date_range.start) >= 0
                   /\ DaysBetween(result.date_range.end, arg[k].transaction_date) >= 0
                   /\ result.amount_range.min.v <= arg[k].amount.v
                   /\ arg[k].amount.v <= result.amount_range.max.v
             /\ \E k \in 1..Len(arg) : arg[k].amount = result.amount_range.min
             /\ \E k \in 1..Len(arg) : arg[k].amount = result.amount_range.max
             /\ result.total_credits.v = SumAt({k \in 1..Len(arg) : arg[k].amount.v > 0})
             /\ result.total_debits.v = Abs(SumAt({k \in 1..Len(arg) : arg[k].amount.v < 0}))
             /\ result.unique_descriptions
                   = Cardinality({arg[k].description : k \in 1..Len(arg)})
             /\ result.total_credits.v - result.total_debits.v = SumAt(1..Len(arg))
             /\ result.total_credits.v >= 0
             /\ result.total_debits.v >= 0

\* a batch with a credit and a debit on different days
C21_Witness ==
    /\ pc = "stats_done"
    /\ Len(arg) = 2
    /\ result.total_credits = Float(4500)
    /\ result.total_debits = Float(5000)
    /\ result.date_range.start = Date(2023, 12, 31)
    /\ result.date_range.end = Date(2024, 2, 1)
    /\ result.unique_descriptions = 2

(***************************************************************************)
(* FileProcessor.validate_file                                             *)
(***************************************************************************)
SUPPORTED_CSV_FORMATS ==
    << "text/csv", "application/vnd.ms-excel",
       "application/vnd.openxmlformats-officedocument.spreadsheetml.sheet" >>
SUPPORTED_PDF_FORMATS == << "application/pdf" >>

\* 10 * 1024 * 1024 bytes
MaxFileSize == 10 * 1024 * 1024

Range(f) == {f[k] : k \in DOMAIN f}

Verdict(is_valid, message) == [is_valid |-> is_valid, message |-> message]

\* validate_file rejecting a file of exactly the maximum size
validate_file_exclusive(file) ==
    IF file.size >= MaxFileSize
    THEN Verdict(FALSE, "File size too large. Maximum 10MB allowed.")
    ELSE IF file.type \notin Range(SUPPORTED_CSV_FORMATS \o SUPPORTED_PDF_FORMATS)
    THEN Verdict(FALSE, "Unsupported file type")
    ELSE Verdict(TRUE, "File is valid")

\* the handler calls it with an upload that is not None
validate_file(file) ==
    IF file.size > MaxFileSize
    THEN Verdict(FALSE, "File size too large. Maximum 10MB allowed.")
    ELSE IF file.type \notin Range(SUPPORTED_CSV_FORMATS \o SUPPORTED_PDF_FORMATS)
    THEN Verdict(FALSE, "Unsupported file type")
    ELSE Verdict(TRUE, "File is valid")

(***************************************************************************)
(* TransactionParser.process_and_categorize and Transaction.create_bulk    *)
(***************************************************************************)
UserId == 1

\* Settings.TRANSACTION_CATEGORIES
TRANSACTION_CATEGORIES ==
    << <<"G", "r", "o", "c", "e", "r", "i", "e", "s">>,
       <<"H", "o", "u", "s", "i", "n", "g">>,
       <<"T", "r", "a", "n", "s", "p", "o", "r", "t", "a", "t", "i", "o", "n">>,
       <<"E", "n", "t", "e", "r", "t", "a", "i", "n", "m", "e", "n", "t">>,
       <<"H", "e", "a", "l", "t", "h", "c", "a", "r", "e">>,
       <<"S", "h", "o", "p", "p", "i", "n", "g">>,
       <<"U", "t", "i", "l", "i", "t", "i", "e", "s">>,
       <<"R", "e", "s", "t", "a", "u", "r", "a", "n", "t", "s">>,
       <<"G", "a", "s">>,
       <<"I", "n", "s", "u", "r", "a", "n", "c", "e">>,
       <<"E", "d", "u", "c", "a", "t", "i", "o", "n">>,
       <<"T", "r", "a", "v", "e", "l">>,
       <<"I", "n", "v", "e", "s", "t", "m", "e", "n", "t", "s">>,
       <<"S", "u", "b", "s", "c", "r", "i", "p", "t", "i", "o", "n", "s">>,
       <<"I", "n", "c", "o", "m", "e">>,
       <<"O", "t", "h", "e", "r">>,
       <<"A", "T", "M", "/", "C", "a", "s", "h">>,
       <<"F", "e", "e", "s">>,
       <<"P", "e", "r", "s", "o", "n", "a", "l", " ", "C", "a", "r", "e">>,
       <<"G", "i", "f", "t", "s">>,
       <<"C", "h", "a", "r", "i", "t", "y">>,
       <<"H", "o", "m", "e", " ", "I", "m", "p", "r", "o", "v", "e", "m", "e", "n", "t">>,
       <<"P", "e", "t", " ", "C", "a", "r", "e">>,
       <<"P", "r", "o", "f", "e", "s", "s", "i", "o", "n", "a", "l", " ", "S", "e", "r", "v", "i", "c", "e", "s">>,
       <<"T", "a", "x", "e", "s">> >>

\* the categories the language model answers with in the model, a part of
\* Settings.TRANSACTION_CATEGORIES
CategoryChoices == {<<"G", "r", "o", "c", "e", "r", "i", "e", "s">>, <<"I", "n", "c", "o", "m", "e">>, <<"O", "t", "h", "e", "r">>}

\* what comes back from the completion call: a JSON object with a category
\* (and a confidence), a text that is no JSON, or an exception of the client
JsonAnswer(category) == [kind |-> "json", category |-> category]
InvalidJson == [kind |-> "invalid_json", category |-> <<>>]
ClientError == [kind |-> "error", category |-> <<>>]

Responses ==
    {JsonAnswer(c) : c \in CategoryChoices \cup {<<"C", "r", "y", "p", "t", "o">>}}
        \cup {InvalidJson, ClientError}

\* the category of the dict categorize_transaction returns
categorize_transaction(response) ==
    IF response.kind = "json"
    THEN IF response.category \in Range(TRANSACTION_CATEGORIES)
         THEN response.category
         ELSE <<"O", "t", "h", "e", "r">>
    ELSE <<"O", "t", "h", "e", "r">>

\* transaction['user_id'] = user_id; a record without a category gets the
\* one categorize_transaction returned (given as chosen), a record with a
\* category keeps it
CategorizeOne(transaction, chosen) ==
    [t |-> "dict", user_id |-> UserId, description |-> transaction.description,
     amount |-> transaction.amount, transaction_date |-> transaction.transaction_date,
     category |-> IF Truthy(transaction.category) THEN transaction.category ELSE Str(chosen),
     account_type |-> transaction.account_type]

process_and_categorize(txs, chosen) ==
    [k \in 1..Len(txs) |-> CategorizeOne(txs[k], chosen[k])]

\* what is stored after a failed insert when nothing is undone
KeepInserted(inserted) == inserted

\* conn.rollback(): the rows inserted since the last commit are undone
RollBack(inserted) == <<>>

\* the outcome of Transaction.create_bulk: what it returns, the rows it
\* has committed, and the rows it had inserted when it stopped
BulkOutcome(ok, committed, inserted) ==
    [ok |-> ok, committed |-> committed, inserted |-> inserted]

\* the loop over the batch; the k-th cursor.execute raises psycopg2.Error
\* when k = fail_at (fail_at = 0: no insert fails)
RECURSIVE InsertFrom(_, _, _, _)
InsertFrom(txs, k, inserted, fail_at) ==
    IF k > Len(txs) THEN BulkOutcome(TRUE, inserted, inserted)
    ELSE IF k = fail_at THEN BulkOutcome(FALSE, RollBack(inserted), inserted)
    ELSE InsertFrom(txs, k + 1, Append(inserted, txs[k]), fail_at)

\* Transaction.create_bulk; connected is whether get_connection() gave a
\* connection
create_bulk(txs, connected, fail_at) ==
    IF txs = <<>> THEN BulkOutcome(FALSE, <<>>, <<>>)
    ELSE IF ~connected THEN BulkOutcome(FALSE, <<>>, <<>>)
    ELSE InsertFrom(txs, 1, <<>>, fail_at)

(***************************************************************************)
(* show_transactions_page: the upload handler.                             *)
(*                                                                         *)
(* An upload is [size, type, content]; content is what the reader for the  *)
(* type gets out of the bytes: a table, or None when the file cannot be    *)
(* read (for a PDF: no text can be extracted).                             *)
(***************************************************************************)
FileTypes ==
    Range(SUPPORTED_CSV_FORMATS) \cup Range(SUPPORTED_PDF_FORMATS) \cup {"text/plain", "image/png"}

FileSizes == {MaxFileSize + d : d \in (0 - SizeSlack)..SizeSlack}

UploadLayouts ==
    { Layout(<<H("date"), H("description"), H("amount")>>,
             {IsoDate, BadDate} \X {PaddedDescription} \X {DollarAmount, Float(-5000)}),
      Layout(<<H("date"), H("description"), H("debit"), H("credit")>>,
             {IsoDate} \X {PaddedDescription} \X {Float(50000), DollarDebit} \X {NaN}),
      Layout(<<H("date"), H("description"), H("amount"), H("type")>>,
             {IsoDate} \X {PaddedDescription} \X {DollarAmount} \X {NaN, Str(<<"S", "a", "l", "e">>)}),
      Layout(<<H("description"), H("amount")>>,
             {PaddedDescription} \X {DollarAmount}) }

Init ==
    /\ pc = "uploaded"
    /\ \E size \in FileSizes, type \in FileTypes :
          \/ uploaded_file = [size |-> size, type |-> type, content |-> None]
          \/ \E L \in UploadLayouts : \E rs \in SeqsUpTo(L.rows, MaxRows) :
                uploaded_file = [size |-> size, type |-> type,
                                 content |-> [t |-> "table", columns |-> L.columns, rows |-> rs]]
    /\ df = NoTable
    /\ transactions = <<>>
    /\ valid_transactions = <<>>
    /\ errors = <<>>
    /\ duplicates = <<>>
    /\ categorized_transactions = <<>>
    /\ saved = <<>>
    /\ messages = <<>>
    /\ calls = <<>>
    /\ arg = None
    /\ result = None

\* the DataFrame the reader returns for a readable file
TableOf(content) == [columns |-> content.columns, rows |-> content.rows]

\* app.py 290-298: validate, and return on a rejected upload
ValidateFile ==
    /\ pc = "uploaded"
    /\ calls' = Append(calls, "validate_file")
    /\ \E v \in {validate_file(uploaded_file)} :
           IF ~v.is_valid
           THEN /\ messages' = Append(messages, v.message)
                /\ pc' = "rejected"
           ELSE /\ messages' = messages
                /\ pc' = "ready"
    /\ UNCHANGED <<uploaded_file, df, transactions, valid_transactions, errors, duplicates,
                   categorized_transactions, saved,
                   arg, result>>

TabularTypes ==
    {"text/csv", "application/vnd.openxmlformats-officedocument.spreadsheetml.sheet"}

\* app.py 301-322, 363-368: the button is pressed; the file is read and
\* handed to the extractor its type selects; an exception that leaves the
\* extractor is caught by the handler and shown
ProcessFile ==
    /\ pc = "ready"
    /\ IF uploaded_file.type \in TabularTypes
       THEN LET reader == IF uploaded_file.type = "text/csv"
                          THEN "process_csv_file" ELSE "process_excel_file"
            IN  IF uploaded_file.content # None
                THEN \E r \in {parse_transactions_from_csv(TableOf(uploaded_file.content))} :
                         /\ df' = TableOf(uploaded_file.content)
                         /\ transactions' = r.transactions
                         /\ calls' = calls \o <<reader, "parse_transactions_from_csv">>
                         /\ messages' =
                              IF r.raised # "none"
                              THEN Append(messages, "Error processing file")
                              ELSE (IF r.diagnostic = "none" THEN messages
                                    ELSE Append(messages, r.diagnostic))
                                   \o (IF r.transactions = <<>>
                                       THEN <<"No transactions found in the uploaded file">>
                                       ELSE <<>>)
                         /\ pc' = IF r.transactions = <<>> THEN "done" ELSE "extracted"
                ELSE /\ calls' = Append(calls, reader)
                     /\ messages' = messages \o <<"Error processing file",
                                                  "No transactions found in the uploaded file">>
                     /\ pc' = "done"
                     /\ UNCHANGED <<df, transactions>>
       ELSE IF uploaded_file.type = "application/pdf"
       THEN \* the PDFs of the model yield no text: process_pdf_file is None
            /\ calls' = Append(calls, "process_pdf_file")
            /\ messages' = messages \o <<"Error processing file",
                                         "No transactions found in the uploaded file">>
            /\ pc' = "done"
            /\ UNCHANGED <<df, transactions>>
       ELSE /\ messages' = Append(messages, "No transactions found in the uploaded file")
            /\ pc' = "done"
            /\ UNCHANGED <<df, transactions, calls>>
    /\ UNCHANGED <<uploaded_file, valid_transactions, errors, duplicates,
                   categorized_transactions, saved,
                   arg, result>>

\* app.py 322-335, 361-362
ValidateStep ==
    /\ pc = "extracted"
    /\ \E r \in {validate_transactions(transactions)} :
           /\ valid_transactions' = r.valid_transactions
           /\ errors' = r.errors
           /\ transactions' = r.transactions
           /\ messages' =
                (IF r.errors # <<>> THEN Append(messages, "validation errors") ELSE messages)
                \o (IF r.valid_transactions = <<>>
                    THEN <<"No valid transactions found">> ELSE <<>>)
           /\ pc' = IF r.valid_transactions = <<>> THEN "done" ELSE "validated"
    /\ calls' = Append(calls, "validate_transactions")
    /\ UNCHANGED <<uploaded_file, df, duplicates, categorized_transactions, saved,
                   arg, result>>

\* app.py 337-340; transaction.update() writes into the dicts that
\* valid_transactions holds, so both lists show the same records afterwards
CategorizeStep ==
    /\ pc = "validated"
    /\ \E responses \in [1..Len(valid_transactions) -> Responses] :
       \E chosen \in {[k \in 1..Len(valid_transactions) |->
                          categorize_transaction(responses[k])]} :
          /\ categorized_transactions' = process_and_categorize(valid_transactions, chosen)
          /\ valid_transactions' = process_and_categorize(valid_transactions, chosen)
    /\ calls' = Append(calls, "process_and_categorize")
    /\ pc' = "categorized"
    /\ UNCHANGED <<uploaded_file, df, transactions, errors, duplicates, saved, messages,
                   arg, result>>

\* app.py 342-360 with Transaction.create_bulk: all rows are committed, or
\* the insert fails and is rolled back
SaveStep ==
    /\ pc = "categorized"
    /\ calls' = Append(calls, "create_bulk")
    /\ \E connected \in BOOLEAN, fail_at \in 0..Len(categorized_transactions) :
       \E r \in {create_bulk(categorized_transactions, connected, fail_at)} :
          /\ result' = r
          /\ saved' = saved \o r.committed
          /\ messages' = Append(messages,
                                IF r.ok THEN "Successfully processed"
                                ELSE "Failed to save transactions to database")
          /\ pc' = IF r.ok THEN "saved" ELSE "done"
    /\ UNCHANGED <<uploaded_file, df, transactions, valid_transactions, errors, duplicates,
                   categorized_transactions, arg>>

Next == ValidateFile \/ ProcessFile \/ ValidateStep \/ CategorizeStep \/ SaveStep

Spec == Init /\ [][Next]_vars

\* a client of TransactionParser asks for the duplicate candidates of the
\* accepted records of the upload; the handler itself never does
DuplicatesReview ==
    /\ pc \in {"validated", "categorized", "saved"}
    /\ \E r \in {get_duplicate_transactions(valid_transactions)} :
           /\ duplicates' = r.duplicates
           /\ valid_transactions' = r.transactions
    /\ UNCHANGED <<pc, uploaded_file, df, transactions, errors, categorized_transactions,
                   saved, messages, calls,
                   arg, result>>

NextAdvisory == Next \/ DuplicatesReview

SpecAdvisory == Init /\ [][NextAdvisory]_vars

\* the position of the first call of a stage in calls, 0 if it was not called
FirstCall(stage) ==
    IF \E k \in 1..Len(calls) : calls[k] = stage
    THEN CHOOSE k \in 1..Len(calls) : calls[k] = stage /\ \A j \in 1..(k - 1) : calls[j] # stage
    ELSE 0

Before(stage1, stage2) == FirstCall(stage2) # 0 => FirstCall(stage1) \in 1..(FirstCall(stage2) - 1)

\* C3 as stated: the handler runs extraction, validation, duplicate
\* detection, categorization and persistence in this order; the duplicate
\* detector has run on the valid records when they reach categorization,
\* and categorization and persistence get accepted records only.
C3_StageOrder ==
    /\ Before("parse_transactions_from_csv", "validate_transactions")
    /\ Before("validate_transactions", "process_and_categorize")
    /\ Before("get_duplicate_transactions", "process_and_categorize")
    /\ Before("process_and_categorize", "create_bulk")
    /\ Len(categorized_transactions) <= Len(valid_transactions)
    /\ Len(saved) <= Len(valid_transactions)

C10_RejectedBeforeParsing ==
    LET allowed == {"text/csv", "application/vnd.ms-excel",
                    "application/vnd.openxmlformats-officedocument.spreadsheetml.sheet",
                    "application/pdf"}
        oversized == uploaded_file.size > 10485760
        rejectable == oversized \/ uploaded_file.type \notin allowed
    IN  pc # "uploaded" =>
          /\ rejectable =>
                /\ pc = "rejected"
                /\ calls = <<"validate_file">>
                /\ transactions = <<>>
                /\ df = NoTable
          /\ ~rejectable => pc # "rejected"
          /\ oversized => messages = <<"File size too large. Maximum 10MB allowed.">>

\* an oversized upload of a type outside the allow-list was turned away
\* with the size message and nothing but validate_file was called
C10_Witness ==
    /\ pc = "rejected"
    /\ uploaded_file.size = 10485761
    /\ uploaded_file.type = "image/png"
    /\ messages = <<"File size too large. Maximum 10MB allowed.">>
    /\ calls = <<"validate_file">>

\* C23: every upload validate_file accepts is handed on: once the button
\* has been handled, the file of an accepted upload has been read, and the
\* readable table of an upload of one of the three tabular types has been
\* given to the tabular extractor.
C23_AcceptedIsDispatched ==
    pc \notin {"uploaded", "ready", "rejected"} =>
        /\ \E k \in 1..Len(calls) :
              calls[k] \in {"process_csv_file", "process_excel_file", "process_pdf_file"}
        /\ (/\ uploaded_file.content # None
            /\ uploaded_file.type \in Range(SUPPORTED_CSV_FORMATS))
              => \E k \in 1..Len(calls) : calls[k] = "parse_transactions_from_csv"

\* C29: every record handed to persistence carries a category of
\* Settings.TRANSACTION_CATEGORIES, the records whose category was carried
\* from a column of the statement included.
C29_ListedCategories ==
    pc \in {"categorized", "saved"} =>
        \A k \in 1..Len(categorized_transactions) :
            /\ categorized_transactions[k].category.t = "str"
            /\ categorized_transactions[k].category.s \in Range(TRANSACTION_CATEGORIES)

\* C30: persisting a batch is all or nothing.  Once create_bulk has
\* returned, either it reports success, every record of the batch is
\* stored and the user is told of the success, or it reports failure,
\* nothing is stored, the rows inserted before the failing one included,
\* and the user is told of the failure; before the call nothing is stored.
C30_AllOrNothing ==
    IF \E k \in 1..Len(calls) : calls[k] = "create_bulk"
    THEN /\ result.ok =>
               /\ saved = categorized_transactions
               /\ result.inserted = categorized_transactions
               /\ pc = "saved"
               /\ messages[Len(messages)] = "Successfully processed"
         /\ ~result.ok =>
               /\ saved = <<>>
               /\ pc = "done"
               /\ messages[Len(messages)] = "Failed to save transactions to database"
               /\ \A k \in 1..Len(messages) : messages[k] # "Successfully processed"
    ELSE /\ saved = <<>>
         /\ \A k \in 1..Len(messages) : messages[k] # "Successfully processed"

\* the insert of the second record of a batch of two failed: the first
\* had been inserted, and nothing is stored
C30_Witness ==
    /\ pc = "done"
    /\ Len(categorized_transactions) = 2
    /\ Len(calls) > 0
    /\ calls[Len(calls)] = "create_bulk"
    /\ ~result.ok
    /\ result.inserted = <<categorized_transactions[1]>>
    /\ saved = <<>>

====
